---- MODULE Spec2Model ----
(***************************************************************************)
(* Checkout / allocation / settlement pipeline of the EC backend           *)
(* (src/main.go, second snapshot, lines 867-2413).                         *)
(*                                                                         *)
(* Each in-flight request of createOrderHandler is a process.  A step of   *)
(* a process is one critical section of the handler (one Lock/RLock ...    *)
(* Unlock region), one unlocked read of shared memory, or the call to the  *)
(* payment gateway.  Purely local computation is folded into the step      *)
(* that precedes it.  This is specification Spec; FairSpec adds that a     *)
(* handler that can take a step takes one.  LockSpec follows the lock      *)
(* statements of a checkout up to the gateway call, PricingSpec applies    *)
(* the pure functions of the charge path to inputs of their own, and       *)
(* StockSpec does the same for getProductStock and allocateStock.          *)
(* ReportSpec runs generateSalesReport over stored orders, WishlistSpec    *)
(* runs the wishlist handlers, and RequestLockSpec follows the lock        *)
(* statements of one request of each kind under sync.RWMutex semantics.    *)
(***************************************************************************)
EXTENDS Integers, Sequences, FiniteSets, TLC

(***************************************************************************)
(* Bounds of the model.                                                    *)
(***************************************************************************)
\* number of checkout requests that may be in flight together
NumRequests == 2

Procs == 1..NumRequests

(***************************************************************************)
(* Reference data.                                                         *)
(***************************************************************************)
\* warehouses created by init(): 1 Tokyo, 2 Osaka, 3 Fukuoka
warehouses == {1, 2, 3}

\* catalog: product 3 (desk) comes from init(), product 5 is the first
\* product an administrator creates through createProductHandler
products == (3 :> [Price |-> 25000]) @@ (5 :> [Price |-> 1000])

\* coupon master data created by init(); never written afterwards
coupons ==
    ("SAVE10" :> [Type |-> "percentage", Amount |-> 10]) @@
    ("SAVE20" :> [Type |-> "percentage", Amount |-> 20]) @@
    ("FLAT1000" :> [Type |-> "fixed", Amount |-> 1000]) @@
    ("FLAT2000" :> [Type |-> "fixed", Amount |-> 2000])

\* registered, non-administrator users
UserIDs == {2, 3}

\* key of the stocks map: Sprintf("%d-%d", productID, warehouseID)
StockKey(productID, warehouseID) == <<productID, warehouseID>>

FreeShippingThreshold == 5000
ShippingFeeAmount == 500
TaxDivisor == 10
PointDivisor == 100
GoldThreshold == 100000
SilverThreshold == 50000

(***************************************************************************)
(* Pure helpers.                                                           *)
(***************************************************************************)
RECURSIVE SumSeq(_)
SumSeq(s) == IF s = <<>> THEN 0 ELSE Head(s) + SumSeq(Tail(s))

RECURSIVE SumOver(_, _)
\* sum of f[x] over the finite set S
SumOver(f, S) ==
    IF S = {} THEN 0
    ELSE LET x == CHOOSE y \in S : TRUE IN f[x] + SumOver(f, S \ {x})

\* all orders in which a range over a Go map may visit the elements of S
Orderings(S) ==
    {s \in [1..Cardinality(S) -> S] : \A a, b \in 1..Cardinality(S) : a # b => s[a] # s[b]}

calculateMemberRank(totalSpent) ==
    IF totalSpent >= GoldThreshold THEN "Gold"
    ELSE IF totalSpent >= SilverThreshold THEN "Silver"
    ELSE "Normal"

(***************************************************************************)
(* Go's float64, as far as int(float64(subtotal) * rate) needs it.         *)
(* Natural numbers wider than the checker's integers are sequences of      *)
(* limbs in base 2^15, least significant first, without leading zero       *)
(* limbs; a float64 is a record [m, e] of value m * 2^e whose mantissa m   *)
(* has at most 53 bits.  Only non-negative finite values occur.            *)
(***************************************************************************)
LimbBits == 15
Limb == 32768

RECURSIVE Pow2(_)
Pow2(n) == IF n = 0 THEN 1 ELSE 2 * Pow2(n - 1)

RECURSIVE BigNormal(_)
\* a without its leading zero limbs
BigNormal(a) ==
    IF a = <<>> THEN <<>>
    ELSE IF a[Len(a)] = 0 THEN BigNormal(SubSeq(a, 1, Len(a) - 1))
    ELSE a

RECURSIVE BigFromInt(_)
BigFromInt(n) == IF n = 0 THEN <<>> ELSE <<n % Limb>> \o BigFromInt(n \div Limb)

RECURSIVE BigToInt(_)
\* defined for values below 2^31
BigToInt(a) == IF a = <<>> THEN 0 ELSE Head(a) + Limb * BigToInt(Tail(a))

RECURSIVE BigMulSmall(_, _, _)
\* a * m + carry, for m and carry below 2^15
BigMulSmall(a, m, carry) ==
    IF a = <<>> THEN (IF carry = 0 THEN <<>> ELSE <<carry>>)
    ELSE LET t == Head(a) * m + carry
         IN  <<t % Limb>> \o BigMulSmall(Tail(a), m, t \div Limb)

RECURSIVE BigAdd(_, _, _)
\* a + b + carry, for carry 0 or 1
BigAdd(a, b, carry) ==
    IF a = <<>> /\ b = <<>> THEN (IF carry = 0 THEN <<>> ELSE <<carry>>)
    ELSE LET x == IF a = <<>> THEN 0 ELSE Head(a)
             y == IF b = <<>> THEN 0 ELSE Head(b)
             t == x + y + carry
         IN  <<t % Limb>> \o BigAdd(IF a = <<>> THEN <<>> ELSE Tail(a),
                                    IF b = <<>> THEN <<>> ELSE Tail(b),
                                    t \div Limb)

RECURSIVE BigMulRaw(_, _)
BigMulRaw(a, b) ==
    IF b = <<>> \/ a = <<>> THEN <<>>
    ELSE BigAdd(BigMulSmall(a, Head(b), 0), <<0>> \o BigMulRaw(a, Tail(b)), 0)

BigMul(a, b) == BigNormal(BigMulRaw(a, b))

RECURSIVE BigDivSmallRaw(_, _, _)
\* quotient limbs of (r * Limb^Len(a) + a) \div d for r < d <= 2^15
BigDivSmallRaw(a, d, r) ==
    IF a = <<>> THEN <<>>
    ELSE LET t == r * Limb + a[Len(a)]
         IN  BigDivSmallRaw(SubSeq(a, 1, Len(a) - 1), d, t % d) \o <<t \div d>>

\* floor(a / d) for 0 < d <= 2^15
BigDivSmall(a, d) == BigNormal(BigDivSmallRaw(a, d, 0))

RECURSIVE IntBitLen(_)
IntBitLen(n) == IF n = 0 THEN 0 ELSE 1 + IntBitLen(n \div 2)

\* number of significant bits of a
BigBitLen(a) == IF a = <<>> THEN 0 ELSE LimbBits * (Len(a) - 1) + IntBitLen(a[Len(a)])

\* bit i of a, bit 0 being the least significant
BigBit(a, i) ==
    IF i \div LimbBits + 1 > Len(a) THEN 0
    ELSE (a[i \div LimbBits + 1] \div Pow2(i % LimbBits)) % 2

\* floor(a / 2^k)
BigShiftRight(a, k) ==
    IF k \div LimbBits >= Len(a) THEN <<>>
    ELSE BigDivSmall(SubSeq(a, k \div LimbBits + 1, Len(a)), Pow2(k % LimbBits))

\* whether a has a bit set below bit k
BigLowBitsSet(a, k) == \E i \in 0..(k - 1) : BigBit(a, i) = 1

\* a / 2^k rounded to the nearest integer, ties to even (k >= 1)
BigRoundShift(a, k) ==
    LET q == BigShiftRight(a, k)
        up == BigBit(a, k - 1) = 1 /\ (BigLowBitsSet(a, k - 1) \/ BigBit(q, 0) = 1)
    IN  IF up THEN BigAdd(q, <<>>, 1) ELSE q

MantissaBits == 53

\* the float64 nearest to a * 2^e
FloatRound(a, e) ==
    IF BigBitLen(a) <= MantissaBits THEN [m |-> a, e |-> e]
    ELSE LET k == BigBitLen(a) - MantissaBits
             q == BigRoundShift(a, k)
         IN  IF BigBitLen(q) > MantissaBits
             THEN [m |-> BigShiftRight(q, 1), e |-> e + k + 1]
             ELSE [m |-> q, e |-> e + k]

\* float64(n) for an int n >= 0
FloatFromInt(a) == FloatRound(a, 0)

\* x * y in float64
FloatMul(x, y) == FloatRound(BigMul(x.m, y.m), x.e + y.e)

RECURSIVE BigShiftLeft(_, _)
BigShiftLeft(a, k) ==
    IF k = 0 THEN a
    ELSE IF k >= LimbBits THEN <<0>> \o BigShiftLeft(a, k - LimbBits)
    ELSE BigMulSmall(a, Pow2(k), 0)

\* int(x): the fraction is dropped
FloatToInt(x) ==
    IF x.m = <<>> THEN <<>>
    ELSE IF x.e >= 0 THEN BigShiftLeft(x.m, x.e)
    ELSE BigShiftRight(x.m, -x.e)

RECURSIVE BigFromHex(_, _)
\* the number written by hexadecimal digits ds, most significant first, after acc
BigFromHex(ds, acc) ==
    IF ds = <<>> THEN acc ELSE BigFromHex(Tail(ds), BigMulSmall(acc, 16, Head(ds)))

\* the float64 constants 0.05 = 0x1999999999999A * 2^-57 and
\* 0.03 = 0x1EB851EB851EB8 * 2^-58
Float005 == [m |-> BigFromHex(<<1, 9, 9, 9, 9, 9, 9, 9, 9, 9, 9, 9, 9, 10>>, <<>>), e |-> -57]
Float003 == [m |-> BigFromHex(<<1, 14, 11, 8, 5, 1, 14, 11, 8, 5, 1, 14, 11, 8>>, <<>>), e |-> -58]
Float0 == [m |-> <<>>, e |-> 0]

\* getRankDiscountRate returns a float64: 0.05, 0.03 or 0.0
getRankDiscountRate(rank) ==
    CASE rank = "Gold" -> Float005
      [] rank = "Silver" -> Float003
      [] OTHER -> Float0

\* int(float64(subtotal) * rankDiscountRate) on a subtotal of any width
RankDiscountOf(subtotal, rank) ==
    FloatToInt(FloatMul(FloatFromInt(subtotal), getRankDiscountRate(rank)))

\* rankDiscountAmount := int(float64(subtotal) * rankDiscountRate)
RankDiscountAmount(subtotal, rank) ==
    BigToInt(RankDiscountOf(BigFromInt(subtotal), rank))

\* a nil *Coupon
NilCoupon == [Type |-> "nil", Amount |-> 0]

\* faulty variant of calculateCouponDiscount: the discount is not cut to baseAmount
calculateCouponDiscountUncapped(coupon, baseAmount) ==
    IF coupon = NilCoupon THEN 0
    ELSE CASE coupon.Type = "fixed" -> coupon.Amount
           [] coupon.Type = "percentage" -> (baseAmount * coupon.Amount) \div 100
           [] OTHER -> 0

calculateCouponDiscount(coupon, baseAmount) ==
    IF coupon = NilCoupon THEN 0
    ELSE LET discount == CASE coupon.Type = "fixed" -> coupon.Amount
                           [] coupon.Type = "percentage" ->
                                  (baseAmount * coupon.Amount) \div 100
                           [] OTHER -> 0
         IN  IF coupon.Type \notin {"fixed", "percentage"} THEN 0
             ELSE IF discount > baseAmount THEN baseAmount ELSE discount

\* subtotal accumulated by the validation loop over items of a catalog
SubtotalIn(catalog, items) ==
    SumSeq([j \in 1..Len(items) |-> catalog[items[j].ProductID].Price * items[j].Quantity])

\* subtotal accumulated by the validation loop
Subtotal(items) == SubtotalIn(products, items)

\* faulty variant of Tax: a fraction of a unit is charged as a whole unit
TaxRoundedUp(discountedSubtotal) == (discountedSubtotal + TaxDivisor - 1) \div TaxDivisor

\* tax := discountedSubtotal / 10
Tax(discountedSubtotal) == discountedSubtotal \div TaxDivisor

\* faulty variant of ShippingFee: Gold pays like everybody else
ShippingFeeForAll(rank, subtotalWithTax) ==
    IF subtotalWithTax < FreeShippingThreshold THEN ShippingFeeAmount ELSE 0

\* shippingFee: Gold never pays, the others pay below the threshold
ShippingFee(rank, subtotalWithTax) ==
    IF rank # "Gold" /\ subtotalWithTax < FreeShippingThreshold
    THEN ShippingFeeAmount ELSE 0

\* faulty variant of AfterPoints: the amount is not set to 0 when it is negative
AfterPointsUnclamped(amount, usePoints) == amount - usePoints

\* afterPointsAmount, set to 0 when the subtraction went below 0
AfterPoints(amount, usePoints) ==
    IF amount - usePoints < 0 THEN 0 ELSE amount - usePoints

\* faulty variant of EarnedPoints: rounded to the nearest point
EarnedPointsRounded(totalPrice) == (totalPrice + 50) \div PointDivisor

\* earnedPoints := totalPrice / 100
EarnedPoints(totalPrice) == totalPrice \div PointDivisor

\* the payment amount algorithm of createOrderHandler on a subtotal
PricingOf(subtotal, rank, appliedCoupon, usePoints) ==
    LET rankDiscountAmount == RankDiscountAmount(subtotal, rank)
        discountedSubtotal == subtotal - rankDiscountAmount
        subtotalWithTax == discountedSubtotal + Tax(discountedSubtotal)
        shippingFee == ShippingFee(rank, subtotalWithTax)
        couponDiscountAmount == calculateCouponDiscount(appliedCoupon, subtotalWithTax)
        afterCouponAmount == subtotalWithTax - couponDiscountAmount
        afterPointsAmount == AfterPoints(afterCouponAmount + shippingFee, usePoints)
    IN  [subtotal |-> subtotal,
         rankDiscountAmount |-> rankDiscountAmount,
         discountedSubtotal |-> discountedSubtotal,
         subtotalWithTax |-> subtotalWithTax,
         shippingFee |-> shippingFee,
         couponDiscountAmount |-> couponDiscountAmount,
         afterCouponAmount |-> afterCouponAmount,
         totalPrice |-> afterPointsAmount,
         earnedPoints |-> EarnedPoints(afterPointsAmount)]

\* the payment amount algorithm of createOrderHandler on a request
Pricing(items, rank, couponCode, usePoints) ==
    PricingOf(Subtotal(items), rank,
              IF couponCode = "" THEN NilCoupon ELSE coupons[couponCode], usePoints)


(***************************************************************************)
(* Request inputs.                                                         *)
(***************************************************************************)
Item(productID, quantity) == [ProductID |-> productID, Quantity |-> quantity]

Request(userID, items, couponCode, usePoints) ==
    [UserID |-> userID, Items |-> items, CouponCode |-> couponCode, UsePoints |-> usePoints]

\* decoded request bodies that pass validation in the initial store, where
\* user 3 (Normal) holds 275 points, user 2 (Gold) holds 1320, product 3 has
\* 4 units over two warehouses and product 5 has 1 unit
AcceptableRequests ==
    { Request(3, <<Item(3, 3)>>, "", 200),
      Request(2, <<Item(5, 1)>>, "FLAT1000", 600),
      Request(3, <<Item(3, 1), Item(3, 4)>>, "SAVE10", 0) }

\* decoded request bodies that validation rejects in every store: no item,
\* quantity 0, unknown product, unknown coupon,
\* negative use_points, more points than any user holds, more units than
\* product 3 ever has
RejectableRequests ==
    { Request(3, <<>>, "", 0),
      Request(3, <<Item(5, 0)>>, "", 0),
      Request(3, <<Item(9, 1)>>, "", 0),
      Request(3, <<Item(5, 1)>>, "BOGUS", 0),
      Request(3, <<Item(5, 1)>>, "", -1),
      Request(2, <<Item(5, 1)>>, "", 2000),
      Request(3, <<Item(3, 5)>>, "SAVE20", 0) }

Requests == AcceptableRequests \cup RejectableRequests

(***************************************************************************)
(* State.                                                                  *)
(***************************************************************************)
VARIABLES
    stocks,             \* stocks map: key -> Quantity
    users,              \* users map: id -> CurrentPoints, TotalSpentAmount, MemberRank
    orders,             \* orders map: id -> Order
    nextOrderID,
    pointHistories,     \* pointHistories map: id -> PointHistory
    nextPointHistoryID,
    wishlists,          \* wishlists map: key -> Wishlist
    gateway,            \* calls received by the payment gateway and its answers, per request
    handler             \* locals and position of each createOrderHandler call

vars == <<stocks, users, orders, nextOrderID, pointHistories, nextPointHistoryID,
          wishlists, gateway, handler>>

shared == <<stocks, users, orders, nextOrderID, pointHistories, nextPointHistoryID,
            wishlists>>

NoRequest == [UserID |-> 0, Items |-> <<>>, CouponCode |-> "", UsePoints |-> 0]

\* the amount locals of a handler before the payment amount algorithm has run
Unpriced ==
    [subtotal |-> 0, rankDiscountAmount |-> 0, discountedSubtotal |-> 0,
     subtotalWithTax |-> 0, shippingFee |-> 0, couponDiscountAmount |-> 0,
     afterCouponAmount |-> 0, totalPrice |-> 0, earnedPoints |-> 0]

\* locals of a handler that has not decoded a request yet; shortAtCall is a
\* history value, not a local: whether the lines with Quantity > 0 that the
\* snapshot of the running allocateStock call saw under stockMux.RLock held
\* less in total than the call was asked for
Idle ==
    [pc |-> "idle", req |-> NoRequest, currentUserRank |-> "", i |-> 0,
     orderID |-> 0, pointsUsed |-> FALSE, paymentResult |-> "none",
     status |-> "", code |-> 0, allocated |-> 0,
     availableStocks |-> <<>>, k |-> 0, remaining |-> 0, allocations |-> <<>>,
     shortAtCall |-> FALSE, priced |-> Unpriced,
     newTotalPoints |-> 0, newRank |-> "",
     transactionID |-> <<>>, message |-> "", body |-> <<>>]

\* The store after init(), the registration of users 2 and 3, the creation
\* of product 5 (price 1000, initial stock 1 in warehouse 1), and two
\* completed orders: order 1 of user 2 (one notebook PC, product 1) and
\* order 2 of user 3 (one desk, drawn from warehouse 3).  The stock lines
\* of products that no modelled cart names are left out.
InitStocks ==
    (StockKey(3, 1) :> 2) @@ (StockKey(3, 2) :> 2) @@ (StockKey(3, 3) :> 0) @@
    (StockKey(5, 1) :> 1)

InitUsers ==
    (2 :> [CurrentPoints |-> 1320, TotalSpentAmount |-> 132000, MemberRank |-> "Gold"]) @@
    (3 :> [CurrentPoints |-> 275, TotalSpentAmount |-> 27500, MemberRank |-> "Normal"])

InitOrders ==
    (1 :> [ID |-> 1, UserID |-> 2, Items |-> <<Item(1, 1)>>, TotalPrice |-> 132000,
           ShippingFee |-> 0, Status |-> "completed", DiscountAmount |-> 0,
           AppliedCoupon |-> "", EarnedPoints |-> 1320, UsedPoints |-> 0,
           RankDiscount |-> 0]) @@
    (2 :> [ID |-> 2, UserID |-> 3, Items |-> <<Item(3, 1)>>, TotalPrice |-> 27500,
           ShippingFee |-> 0, Status |-> "completed", DiscountAmount |-> 0,
           AppliedCoupon |-> "", EarnedPoints |-> 275, UsedPoints |-> 0,
           RankDiscount |-> 0])

InitPointHistories ==
    (1 :> [ID |-> 1, UserID |-> 2, OrderID |-> 1, Type |-> "earned",
           Amount |-> 1320, Balance |-> 1320]) @@
    (2 :> [ID |-> 2, UserID |-> 3, OrderID |-> 2, Type |-> "earned",
           Amount |-> 275, Balance |-> 275])

Init ==
    /\ stocks = InitStocks
    /\ users = InitUsers
    /\ orders = InitOrders
    /\ nextOrderID = 3
    /\ pointHistories = InitPointHistories
    /\ nextPointHistoryID = 3
    /\ wishlists = <<>>
    /\ gateway = [p \in Procs |-> <<>>]
    /\ handler = [p \in Procs |-> Idle]


(***************************************************************************)
(* Stock helpers.                                                          *)
(***************************************************************************)
\* warehouses holding a stock line of productID
LineWarehouses(productID) ==
    {w \in warehouses : StockKey(productID, w) \in DOMAIN stocks}

\* Quantity of each stock line of productID, by warehouse
LineQuantity(productID) ==
    [w \in LineWarehouses(productID) |-> stocks[StockKey(productID, w)]]

\* faulty variant of AvailableWarehouses: the lines with Quantity 0 are kept too
AvailableWarehousesWithEmpty(productID) ==
    {w \in LineWarehouses(productID) : stocks[StockKey(productID, w)] >= 0}

\* the lines both range loops keep: stock.ProductID == productID && stock.Quantity > 0
AvailableWarehouses(productID) ==
    {w \in LineWarehouses(productID) : stocks[StockKey(productID, w)] > 0}

\* getProductStock: totalStock over the lines with Quantity > 0
getProductStock(productID) ==
    SumOver(LineQuantity(productID), AvailableWarehouses(productID))

(***************************************************************************)
(* Loyalty ledger: usePoints, addPoints, rollbackPoints,                   *)
(* updateUserPurchaseAmountAndRank.  Each is one userMux critical section. *)
(***************************************************************************)
PointHistoryEntry(userID, orderID, type, points, balance) ==
    [ID |-> nextPointHistoryID, UserID |-> userID, OrderID |-> orderID,
     Type |-> type, Amount |-> points, Balance |-> balance]

\* faulty variant of PointsMove: the entry records the balance from before
\* the move
PointsMoveRecordingOldBalance(userID, orderID, type, points, delta) ==
    LET balance == users[userID].CurrentPoints + delta IN
    /\ users' = [users EXCEPT ![userID].CurrentPoints = balance]
    /\ pointHistories' =
           (nextPointHistoryID :>
                PointHistoryEntry(userID, orderID, type, points, users[userID].CurrentPoints))
           @@ pointHistories
    /\ nextPointHistoryID' = nextPointHistoryID + 1

\* faulty variant of PointsMove: the identifier counter is not advanced, so
\* the next entry is stored under the identifier of this one
PointsMoveReusingIdentifier(userID, orderID, type, points, delta) ==
    LET balance == users[userID].CurrentPoints + delta IN
    /\ users' = [users EXCEPT ![userID].CurrentPoints = balance]
    /\ pointHistories' =
           (nextPointHistoryID :> PointHistoryEntry(userID, orderID, type, points, balance))
           @@ pointHistories
    /\ nextPointHistoryID' = nextPointHistoryID

\* CurrentPoints of userID moves by delta and one history entry is appended
PointsMove(userID, orderID, type, points, delta) ==
    LET balance == users[userID].CurrentPoints + delta IN
    /\ users' = [users EXCEPT ![userID].CurrentPoints = balance]
    /\ pointHistories' =
           (nextPointHistoryID :> PointHistoryEntry(userID, orderID, type, points, balance))
           @@ pointHistories
    /\ nextPointHistoryID' = nextPointHistoryID + 1

\* faulty variant of CanUsePoints: the balance is not compared with points
CanUsePointsUnchecked(userID, points) ==
    userID \in DOMAIN users

\* whether usePoints debits: the user exists and holds at least points
CanUsePoints(userID, points) ==
    userID \in DOMAIN users /\ users[userID].CurrentPoints >= points

\* faulty variant of usePoints: a user who holds less than points loses what
\* is left of the balance
usePointsTakingTheRest(userID, orderID, points) ==
    IF CanUsePoints(userID, points)
    THEN PointsMove(userID, orderID, "used", points, -points)
    ELSE PointsMove(userID, orderID, "used", points, -users[userID].CurrentPoints)

usePoints(userID, orderID, points) ==
    IF CanUsePoints(userID, points)
    THEN PointsMove(userID, orderID, "used", points, -points)
    ELSE UNCHANGED <<users, pointHistories, nextPointHistoryID>>

addPoints(userID, orderID, points) ==
    IF userID \in DOMAIN users
    THEN PointsMove(userID, orderID, "earned", points, points)
    ELSE UNCHANGED <<users, pointHistories, nextPointHistoryID>>

\* faulty variant of rollbackPoints: the entry is recorded, nothing is added back
rollbackPointsHistoryOnly(userID, orderID, points) ==
    IF userID \in DOMAIN users
    THEN PointsMove(userID, orderID, "rollback", points, 0)
    ELSE UNCHANGED <<users, pointHistories, nextPointHistoryID>>

rollbackPoints(userID, orderID, points) ==
    IF userID \in DOMAIN users
    THEN PointsMove(userID, orderID, "rollback", points, points)
    ELSE UNCHANGED <<users, pointHistories, nextPointHistoryID>>

\* faulty variant of updateUserPurchaseAmountAndRank: the rank is derived
\* from the amount of this purchase, not from the total
updateUserPurchaseAmountAndRankFromAmount(userID, amount) ==
    IF userID \in DOMAIN users
    THEN LET total == users[userID].TotalSpentAmount + amount IN
         users' = [users EXCEPT ![userID].TotalSpentAmount = total,
                                ![userID].MemberRank = calculateMemberRank(amount)]
    ELSE UNCHANGED users

updateUserPurchaseAmountAndRank(userID, amount) ==
    IF userID \in DOMAIN users
    THEN LET total == users[userID].TotalSpentAmount + amount IN
         users' = [users EXCEPT ![userID].TotalSpentAmount = total,
                                ![userID].MemberRank = calculateMemberRank(total)]
    ELSE UNCHANGED users


(***************************************************************************)
(* createOrderHandler.                                                     *)
(***************************************************************************)
\* the amounts the handler computed for its request under the rank it read
Priced(h) == h.priced

\* faulty variant of Order: coupon and discounts are kept for completed orders only
OrderDroppingDiscount(h) ==
    [ID |-> h.orderID, UserID |-> h.req.UserID, Items |-> h.req.Items,
     TotalPrice |-> Priced(h).totalPrice, ShippingFee |-> Priced(h).shippingFee,
     Status |-> h.status,
     DiscountAmount |-> IF h.status = "completed" THEN Priced(h).couponDiscountAmount ELSE 0,
     AppliedCoupon |-> IF h.status = "completed" THEN h.req.CouponCode ELSE "",
     EarnedPoints |-> Priced(h).earnedPoints,
     UsedPoints |-> h.req.UsePoints,
     RankDiscount |-> IF h.status = "completed" THEN Priced(h).rankDiscountAmount ELSE 0]

\* faulty variant of Order: the earned points are kept for completed orders only
OrderEarningWhenCompleted(h) ==
    [ID |-> h.orderID, UserID |-> h.req.UserID, Items |-> h.req.Items,
     TotalPrice |-> Priced(h).totalPrice, ShippingFee |-> Priced(h).shippingFee,
     Status |-> h.status, DiscountAmount |-> Priced(h).couponDiscountAmount,
     AppliedCoupon |-> h.req.CouponCode,
     EarnedPoints |-> IF h.status = "completed" THEN Priced(h).earnedPoints ELSE 0,
     UsedPoints |-> h.req.UsePoints, RankDiscount |-> Priced(h).rankDiscountAmount]

\* the order object built after the gateway call
Order(h) ==
    [ID |-> h.orderID, UserID |-> h.req.UserID, Items |-> h.req.Items,
     TotalPrice |-> Priced(h).totalPrice, ShippingFee |-> Priced(h).shippingFee,
     Status |-> h.status, DiscountAmount |-> Priced(h).couponDiscountAmount,
     AppliedCoupon |-> h.req.CouponCode, EarnedPoints |-> Priced(h).earnedPoints,
     UsedPoints |-> h.req.UsePoints, RankDiscount |-> Priced(h).rankDiscountAmount]

\* the handler returns with an error response and no order stored; the text
\* of the error is left out
Reject(h, code) == [h EXCEPT !.pc = "done", !.code = code, !.body = <<"error">>]

\* faulty variant of HeaderRejected: use_points above half the subtotal of a
\* one-line cart is refused
HeaderRejectedOverpaying(r) ==
    \/ Len(r.Items) = 0
    \/ r.UsePoints < 0
    \/ r.UsePoints > users[r.UserID].CurrentPoints
    \/ r.CouponCode # "" /\ r.CouponCode \notin DOMAIN coupons
    \/ /\ Len(r.Items) = 1
       /\ r.Items[1].ProductID \in DOMAIN products
       /\ 2 * r.UsePoints > Subtotal(r.Items)

\* header validation: empty cart, use_points, balance, coupon code
HeaderRejected(r) ==
    \/ Len(r.Items) = 0
    \/ r.UsePoints < 0
    \/ r.UsePoints > users[r.UserID].CurrentPoints
    \/ r.CouponCode # "" /\ r.CouponCode \notin DOMAIN coupons

Receive(p) ==
    /\ handler[p].pc = "idle"
    /\ \E r \in Requests :
         handler' = [handler EXCEPT ![p] =
             IF HeaderRejected(r)
             THEN Reject([Idle EXCEPT !.req = r], 400)
             ELSE [Idle EXCEPT !.pc = "validate", !.req = r, !.i = 1,
                               !.currentUserRank = users[r.UserID].MemberRank]]
    /\ UNCHANGED <<shared, gateway>>

\* faulty variant of ValidateItem: the order id counter is advanced as soon as
\* the first item is looked at
ValidateItemTakingOrderID(p) ==
    LET h == handler[p]
        item == h.req.Items[h.i]
    IN  /\ h.pc = "validate"
        /\ handler' = [handler EXCEPT ![p] =
             IF item.Quantity <= 0 THEN Reject(h, 400)
             ELSE IF item.ProductID \notin DOMAIN products THEN Reject(h, 404)
             ELSE IF getProductStock(item.ProductID) < item.Quantity THEN Reject(h, 400)
             ELSE IF h.i < Len(h.req.Items) THEN [h EXCEPT !.i = h.i + 1]
             ELSE [h EXCEPT !.pc = "price"]]
        /\ nextOrderID' = IF h.i = 1 THEN nextOrderID + 1 ELSE nextOrderID
        /\ UNCHANGED <<stocks, users, orders, pointHistories, nextPointHistoryID, wishlists, gateway>>

\* one iteration of the validation loop over req.Items
ValidateItem(p) ==
    LET h == handler[p]
        item == h.req.Items[h.i]
    IN  /\ h.pc = "validate"
        /\ handler' = [handler EXCEPT ![p] =
             IF item.Quantity <= 0 THEN Reject(h, 400)
             ELSE IF item.ProductID \notin DOMAIN products THEN Reject(h, 404)
             ELSE IF getProductStock(item.ProductID) < item.Quantity THEN Reject(h, 400)
             ELSE IF h.i < Len(h.req.Items) THEN [h EXCEPT !.i = h.i + 1]
             ELSE [h EXCEPT !.pc = "price"]]
        /\ UNCHANGED <<shared, gateway>>

\* the payment amount algorithm tabulated: the amounts of every request whose
\* products and coupon exist, for the rank its handler may have read (@@ makes
\* the table an explicit function, computed once)
PricedRequests ==
    [x \in {<<r, rank>> \in Requests \X {"Normal", "Silver", "Gold"} :
                /\ \A j \in 1..Len(r.Items) : r.Items[j].ProductID \in DOMAIN products
                /\ r.CouponCode \in {""} \cup DOMAIN coupons}
        |-> Pricing(x[1].Items, x[2], x[1].CouponCode, x[1].UsePoints)] @@ <<>>

\* pricing, and orderID := nextOrderID read outside orderMux
ComputePrice(p) ==
    LET h == handler[p] IN
    /\ h.pc = "price"
    /\ handler' = [handler EXCEPT ![p] =
         [h EXCEPT !.priced = PricedRequests[<<h.req, h.currentUserRank>>],
                   !.orderID = nextOrderID,
                   !.pc = IF h.req.UsePoints > 0 THEN "usePoints" ELSE "pay"]]
    /\ UNCHANGED <<shared, gateway>>

ReservePoints(p) ==
    LET h == handler[p] IN
    /\ h.pc = "usePoints"
    /\ usePoints(h.req.UserID, h.orderID, h.req.UsePoints)
    /\ handler' = [handler EXCEPT ![p] =
         IF CanUsePoints(h.req.UserID, h.req.UsePoints)
         THEN [h EXCEPT !.pointsUsed = TRUE, !.pc = "pay"]
         ELSE Reject(h, 500)]
    /\ UNCHANGED <<stocks, orders, nextOrderID, wishlists, gateway>>

\* faulty variant of Failed: the reservation is never rolled back
FailedWithoutRollback(h) ==
    [h EXCEPT !.pc = "store", !.status = "payment_failed"]

\* faulty variant of Failed: rollbackPoints is called whether or not points
\* were reserved
FailedAlwaysRollingBack(h) ==
    [h EXCEPT !.pc = "rollback"]

\* where the handler goes once payment or allocation has failed
Failed(h) ==
    IF h.pointsUsed
    THEN [h EXCEPT !.pc = "rollback"]
    ELSE [h EXCEPT !.pc = "store", !.status = "payment_failed"]

\* the failure message of the gateway: one of its four, which the handler
\* copies into its response without looking at it
FailureReasons == {"Card declined"}

\* what DummyPaymentGateway.ProcessPayment may return for orderID; the time
\* in the transaction id is left out
PaymentResults(orderID) ==
    { [Success |-> TRUE, TransactionID |-> <<"TXN", orderID>>,
       Message |-> "Payment processed successfully"] }
    \cup { [Success |-> FALSE, TransactionID |-> <<>>, Message |-> reason] :
             reason \in FailureReasons }

\* the locals of h once paymentResult holds result
Paid(h, result) ==
    [h EXCEPT !.paymentResult = IF result.Success THEN "success" ELSE "declined",
              !.transactionID = result.TransactionID,
              !.message = result.Message]

\* faulty variant of ProcessPayment: a declined payment is tried once more
ProcessPaymentRetrying(p) ==
    LET h == handler[p] IN
    /\ h.pc = "pay"
    /\ \E result \in PaymentResults(h.orderID) :
         /\ gateway' = [gateway EXCEPT ![p] =
                Append(@, [amount |-> Priced(h).totalPrice, orderID |-> h.orderID,
                           answer |-> result])]
         /\ handler' = [handler EXCEPT ![p] =
                IF result.Success
                THEN [Paid(h, result) EXCEPT !.pc = "alloc_snapshot", !.i = 1]
                ELSE IF Len(gateway[p]) = 0 THEN h
                ELSE Failed(Paid(h, result))]
    /\ UNCHANGED shared

\* paymentResult := paymentGateway.ProcessPayment(totalPrice, orderID); the
\* gateway answers success or failure as it pleases
ProcessPayment(p) ==
    LET h == handler[p] IN
    /\ h.pc = "pay"
    /\ \E result \in PaymentResults(h.orderID) :
         /\ gateway' = [gateway EXCEPT ![p] =
                Append(@, [amount |-> Priced(h).totalPrice, orderID |-> h.orderID,
                           answer |-> result])]
         /\ handler' = [handler EXCEPT ![p] =
                IF result.Success
                THEN [Paid(h, result) EXCEPT !.pc = "alloc_snapshot", !.i = 1]
                ELSE Failed(Paid(h, result))]
    /\ UNCHANGED shared


(***************************************************************************)
(* allocateStock, called once per line item after a successful payment.    *)
(* The snapshot is one stockMux.RLock section; the planning loop reads      *)
(* stock.Quantity through the kept pointers with no lock held, one step     *)
(* per read; the decrement is one stockMux.Lock section.                    *)
(***************************************************************************)
\* the line item allocateStock is working on
CurrentItem(h) == h.req.Items[h.i]

\* locals of allocateStock are dropped when it returns
DropAllocLocals(h) ==
    [h EXCEPT !.availableStocks = <<>>, !.k = 0, !.remaining = 0, !.allocations = <<>>,
              !.shortAtCall = FALSE]

\* faulty variant of AllocNext: after the loop the plan is committed even when
\* remaining is not 0
AllocNextCommittingPart(h) ==
    IF h.remaining > 0 /\ h.k <= Len(h.availableStocks)
    THEN [h EXCEPT !.pc = "alloc_cmp"]
    ELSE [h EXCEPT !.pc = "alloc_commit"]

\* loop head of the planning loop, and the test that follows the loop
AllocNext(h) ==
    IF h.remaining > 0 /\ h.k <= Len(h.availableStocks)
    THEN [h EXCEPT !.pc = "alloc_cmp"]
    ELSE IF h.remaining = 0
    THEN [h EXCEPT !.pc = "alloc_commit"]
    ELSE Failed(DropAllocLocals(h))

\* availableStocks: the lines with Quantity > 0, in map iteration order
AllocSnapshot(p) ==
    LET h == handler[p] IN
    /\ h.pc = "alloc_snapshot"
    /\ \E order \in Orderings(AvailableWarehouses(CurrentItem(h).ProductID)) :
         handler' = [handler EXCEPT ![p] =
             AllocNext([h EXCEPT !.availableStocks = order, !.k = 1,
                                 !.remaining = CurrentItem(h).Quantity,
                                 !.allocations = <<>>,
                                 !.shortAtCall =
                                     getProductStock(CurrentItem(h).ProductID)
                                         < CurrentItem(h).Quantity])]
    /\ UNCHANGED <<shared, gateway>>

\* the Quantity the planning loop reads now from the line it is looking at
PlannedLineQuantity(h) ==
    stocks[StockKey(CurrentItem(h).ProductID, h.availableStocks[h.k])]

\* if stock.Quantity >= remaining { allocations[w] = remaining; remaining = 0 }
AllocCompare(p) ==
    LET h == handler[p] IN
    /\ h.pc = "alloc_cmp"
    /\ handler' = [handler EXCEPT ![p] =
         IF PlannedLineQuantity(h) >= h.remaining
         THEN AllocNext([h EXCEPT
                 !.allocations = (h.availableStocks[h.k] :> h.remaining) @@ h.allocations,
                 !.remaining = 0, !.k = h.k + 1])
         ELSE [h EXCEPT !.pc = "alloc_take"]]
    /\ UNCHANGED <<shared, gateway>>

\* else { allocations[w] = stock.Quantity
AllocTake(p) ==
    LET h == handler[p] IN
    /\ h.pc = "alloc_take"
    /\ handler' = [handler EXCEPT ![p] =
         [h EXCEPT !.allocations =
                       (h.availableStocks[h.k] :> PlannedLineQuantity(h)) @@ h.allocations,
                   !.pc = "alloc_sub"]]
    /\ UNCHANGED <<shared, gateway>>

\*        remaining -= stock.Quantity }
AllocSubtract(p) ==
    LET h == handler[p] IN
    /\ h.pc = "alloc_sub"
    /\ handler' = [handler EXCEPT ![p] =
         AllocNext([h EXCEPT !.remaining = h.remaining - PlannedLineQuantity(h),
                             !.k = h.k + 1])]
    /\ UNCHANGED <<shared, gateway>>

\* the stocks map after the decrement loop of allocateStock
Decremented(productID, allocations) ==
    [key \in DOMAIN stocks |->
        IF key[1] = productID /\ key[2] \in DOMAIN allocations
        THEN stocks[key] - allocations[key[2]]
        ELSE stocks[key]]

\* where the handler goes after allocateStock returned true for item i
AfterAllocated(h) ==
    IF h.i < Len(h.req.Items)
    THEN [h EXCEPT !.allocated = h.allocated + 1, !.i = h.i + 1, !.pc = "alloc_snapshot"]
    ELSE [h EXCEPT !.allocated = h.allocated + 1, !.status = "completed",
                   !.pc = IF Priced(h).earnedPoints > 0 THEN "addPoints" ELSE "updateRank"]

AllocCommit(p) ==
    LET h == handler[p] IN
    /\ h.pc = "alloc_commit"
    /\ stocks' = Decremented(CurrentItem(h).ProductID, h.allocations)
    /\ handler' = [handler EXCEPT ![p] = AfterAllocated(DropAllocLocals(h))]
    /\ UNCHANGED <<users, orders, nextOrderID, pointHistories, nextPointHistoryID, wishlists, gateway>>

(***************************************************************************)
(* Settlement.                                                             *)
(***************************************************************************)
RollbackPoints(p) ==
    LET h == handler[p] IN
    /\ h.pc = "rollback"
    /\ rollbackPoints(h.req.UserID, h.orderID, h.req.UsePoints)
    /\ handler' = [handler EXCEPT ![p] = [h EXCEPT !.pc = "store", !.status = "payment_failed"]]
    /\ UNCHANGED <<stocks, orders, nextOrderID, wishlists, gateway>>

AddPoints(p) ==
    LET h == handler[p] IN
    /\ h.pc = "addPoints"
    /\ addPoints(h.req.UserID, h.orderID, Priced(h).earnedPoints)
    /\ handler' = [handler EXCEPT ![p] = [h EXCEPT !.pc = "updateRank"]]
    /\ UNCHANGED <<stocks, orders, nextOrderID, wishlists, gateway>>

UpdateRank(p) ==
    LET h == handler[p] IN
    /\ h.pc = "updateRank"
    /\ updateUserPurchaseAmountAndRank(h.req.UserID, Priced(h).totalPrice)
    /\ handler' = [handler EXCEPT ![p] = [h EXCEPT !.pc = "readUser"]]
    /\ UNCHANGED <<stocks, orders, nextOrderID, pointHistories, nextPointHistoryID, wishlists, gateway>>

\* updatedUser := users[user.ID] under userMux.RLock, for the response
ReadUser(p) ==
    LET h == handler[p] IN
    /\ h.pc = "readUser"
    /\ handler' = [handler EXCEPT ![p] =
         [h EXCEPT !.newTotalPoints = users[h.req.UserID].CurrentPoints,
                   !.newRank = users[h.req.UserID].MemberRank,
                   !.pc = "store"]]
    /\ UNCHANGED <<shared, gateway>>

\* response status of a handler that stores its order
ResponseCode(h) ==
    IF h.status = "completed" THEN 201
    ELSE IF h.paymentResult = "success" THEN 409
    ELSE 402

\* faulty variant of ResponseBody: the payment error has a text of its own
ResponseBodyWithoutMessage(h) ==
    IF h.status = "completed" THEN <<"transaction_id", h.transactionID>>
    ELSE IF h.paymentResult = "success"
    THEN <<"error", "Stock allocation failed. Please retry.">>
    ELSE <<"error", "Payment failed">>

\* of the response body of a handler that stores its order: the
\* transaction_id field, or the error text
ResponseBody(h) ==
    IF h.status = "completed" THEN <<"transaction_id", h.transactionID>>
    ELSE IF h.paymentResult = "success"
    THEN <<"error", "Stock allocation failed. Please retry.">>
    ELSE <<"error", "Payment failed: ", h.message>>

\* the orders map after orders[order.ID] = order
Stored(order) ==
    [id \in DOMAIN orders \cup {order.ID} |-> IF id = order.ID THEN order ELSE orders[id]]

\* orderMux.Lock(); nextOrderID++; orders[order.ID] = order; orderMux.Unlock()
StoreOrder(p) ==
    LET h == handler[p] IN
    /\ h.pc = "store"
    /\ nextOrderID' = nextOrderID + 1
    /\ orders' = Stored(Order(h))
    /\ handler' = [handler EXCEPT ![p] =
         [h EXCEPT !.pc = "done", !.code = ResponseCode(h), !.body = ResponseBody(h)]]
    /\ UNCHANGED <<stocks, users, pointHistories, nextPointHistoryID, wishlists, gateway>>

Next ==
    \E p \in Procs :
        \/ Receive(p)
        \/ ValidateItem(p)
        \/ ComputePrice(p)
        \/ ReservePoints(p)
        \/ ProcessPayment(p)
        \/ AllocSnapshot(p)
        \/ AllocCompare(p)
        \/ AllocTake(p)
        \/ AllocSubtract(p)
        \/ AllocCommit(p)
        \/ RollbackPoints(p)
        \/ AddPoints(p)
        \/ UpdateRank(p)
        \/ ReadUser(p)
        \/ StoreOrder(p)

Spec == Init /\ [][Next]_vars

\* the steps of request p once it has arrived
Serve(p) ==
    \/ ValidateItem(p)
    \/ ComputePrice(p)
    \/ ReservePoints(p)
    \/ ProcessPayment(p)
    \/ AllocSnapshot(p)
    \/ AllocCompare(p)
    \/ AllocTake(p)
    \/ AllocSubtract(p)
    \/ AllocCommit(p)
    \/ RollbackPoints(p)
    \/ AddPoints(p)
    \/ UpdateRank(p)
    \/ ReadUser(p)
    \/ StoreOrder(p)

\* every goroutine that can run does run, every mutex is released by the end
\* of its critical section, and the gateway returns: a handler that has a
\* step to take takes it
FairSpec == Spec /\ \A p \in Procs : WF_vars(Serve(p))


(***************************************************************************)
(* Quantities the properties speak about.                                  *)
(***************************************************************************)
\* total stock of productID: the sum of all its lines, whatever their sign
TotalQuantity(productID) ==
    SumOver(LineQuantity(productID), LineWarehouses(productID))

\* total stock of productID in the initial store
InitTotal(productID) ==
    SumOver([key \in DOMAIN InitStocks |-> InitStocks[key]],
            {key \in DOMAIN InitStocks : key[1] = productID})

\* units of productID in the first n line items of a cart
RECURSIVE QuantityIn(_, _, _)
QuantityIn(items, n, productID) ==
    IF n = 0 THEN 0
    ELSE QuantityIn(items, n - 1, productID)
         + (IF items[n].ProductID = productID THEN items[n].Quantity ELSE 0)

\* units of productID over the allocateStock calls of request p that returned true
AllocatedQuantity(p, productID) ==
    QuantityIn(handler[p].req.Items, handler[p].allocated, productID)

\* units of productID in the whole cart of request p
OrderedQuantity(p, productID) ==
    QuantityIn(handler[p].req.Items, Len(handler[p].req.Items), productID)

ProductIDs == DOMAIN products

\* request p went through the gateway and stored its order
Finished(p) == handler[p].pc = "done" /\ handler[p].paymentResult # "none"

Completed(p) == handler[p].pc = "done" /\ handler[p].status = "completed"

(***************************************************************************)
(* C1: in every reachable state the quantity of every stock line is >= 0.  *)
(* Refuted: allocateStock plans from quantities read without the lock and  *)
(* decrements without looking again; two requests for the last unit of     *)
(* product 5 both decrement it.                                            *)
(***************************************************************************)
C1_StockNeverNegative == \A key \in DOMAIN stocks : stocks[key] >= 0

(***************************************************************************)
(* C2: for every product, the quantities of the allocateStock calls that   *)
(* returned true sum to at most the product's initial total stock.         *)
(* Refuted by the same race.                                               *)
(***************************************************************************)
C2_SuccessfulDrawsWithinStock ==
    \A productID \in ProductIDs :
        SumOver([p \in Procs |-> AllocatedQuantity(p, productID)], Procs)
            <= InitTotal(productID)

(***************************************************************************)
(* C3: when two checkouts that were both charged order a product whose     *)
(* initial total stock covers each of them but not both, at most one of    *)
(* them ends "completed".  Refuted: both complete.                         *)
(***************************************************************************)
C3_AtMostOneCompleted ==
    \A p, q \in Procs : \A productID \in ProductIDs :
        ( /\ p # q
          /\ Completed(p) /\ Completed(q)
          /\ OrderedQuantity(p, productID) > 0
          /\ OrderedQuantity(q, productID) > 0 )
        => OrderedQuantity(p, productID) + OrderedQuantity(q, productID)
               <= InitTotal(productID)

(***************************************************************************)
(* C4: every attempt that reached the payment call stores one record       *)
(* under an identifier of its own: the store holds one record more per     *)
(* finished attempt.  Refuted: orderID is read from nextOrderID outside    *)
(* orderMux, two attempts in flight read the same value and the second     *)
(* store overwrites the first.                                             *)
(***************************************************************************)
C4_OneRecordPerAttempt ==
    Cardinality(DOMAIN orders) =
        Cardinality(DOMAIN InitOrders) + Cardinality({p \in Procs : Finished(p)})


(***************************************************************************)
(* C5: a checkout whose payment is declined changes no stock line in any   *)
(* of its steps, and when it returns the order store holds, under its      *)
(* order id, a record of its user with status "payment_failed" that        *)
(* carries the coupon code, coupon discount, rank discount and used points *)
(* computed for the attempt.                                               *)
(***************************************************************************)
C5_DeclinedKeepsStockAndStoresOrder ==
    [][\A p \in Procs :
        LET h == handler[p]
            h2 == handler'[p]
        IN  (h2 # h /\ h2.paymentResult # "success") =>
              /\ stocks' = stocks
              /\ (h2.pc = "done" /\ h2.paymentResult = "declined") =>
                    /\ h2.orderID \in DOMAIN orders'
                    /\ orders'[h2.orderID].Status = "payment_failed"
                    /\ orders'[h2.orderID].UserID = h2.req.UserID
                    /\ orders'[h2.orderID].AppliedCoupon = h2.req.CouponCode
                    /\ orders'[h2.orderID].DiscountAmount = Priced(h2).couponDiscountAmount
                    /\ orders'[h2.orderID].RankDiscount = Priced(h2).rankDiscountAmount
                    /\ orders'[h2.orderID].UsedPoints = h2.req.UsePoints]_vars

\* the Gold user's declined order of product 5 with FLAT1000 and 600 points is
\* on file with discount 1000 and rank discount 50, and no stock line has moved
C5_Witness ==
    \E p \in Procs :
        /\ handler[p].pc = "done"
        /\ handler[p].paymentResult = "declined"
        /\ handler[p].req.CouponCode = "FLAT1000"
        /\ handler[p].orderID \in DOMAIN orders
        /\ orders[handler[p].orderID].Status = "payment_failed"
        /\ orders[handler[p].orderID].DiscountAmount = 1000
        /\ orders[handler[p].orderID].RankDiscount = 50
        /\ orders[handler[p].orderID].UsedPoints = 600
        /\ stocks = InitStocks

(***************************************************************************)
(* C6: a checkout that reserved points and whose payment is declined       *)
(* gives back exactly what it took: its usePoints step lowers the user's   *)
(* balance by pointsToUse, the step that marks it "payment_failed" raises  *)
(* the balance by pointsToUse, no other step of it after the debit moves   *)
(* the balance, and it does not return before it is marked.                *)
(***************************************************************************)
C6_DeclinedRestoresPoints ==
    [][\A p \in Procs :
        LET h == handler[p]
            h2 == handler'[p]
            u == h2.req.UserID
        IN  (h2 # h) =>
              /\ (h.pc = "usePoints" /\ h2.pointsUsed) =>
                    users'[u].CurrentPoints = users[u].CurrentPoints - h.req.UsePoints
              /\ (h.pointsUsed /\ h2.paymentResult = "declined") =>
                    /\ (h.status # "payment_failed" /\ h2.status = "payment_failed") =>
                          users'[u].CurrentPoints = users[u].CurrentPoints + h.req.UsePoints
                    /\ (h.status = h2.status) =>
                          users'[u].CurrentPoints = users[u].CurrentPoints
                    /\ (h2.pc = "done") => h.status = "payment_failed"]_vars

\* user 3 alone: 200 points reserved, payment declined, balance back at 275
C6_Witness ==
    \E p \in Procs :
        /\ handler[p].pc = "done"
        /\ handler[p].paymentResult = "declined"
        /\ handler[p].pointsUsed
        /\ handler[p].req.UserID = 3
        /\ \A q \in Procs \ {p} : handler[q].pc = "idle"
        /\ users[3].CurrentPoints = InitUsers[3].CurrentPoints

(***************************************************************************)
(* C7: no balance is ever negative, and for every user the reservations    *)
(* that succeeded and were not rolled back sum to at most the points the   *)
(* user held initially plus the points credited since.                     *)
(***************************************************************************)
\* request p holds a reservation that has not been rolled back
Outstanding(p) == handler[p].pointsUsed /\ handler[p].status # "payment_failed"

\* request p has credited its earned points
Credited(p) ==
    /\ handler[p].status = "completed"
    /\ handler[p].pc \in {"updateRank", "readUser", "store", "done"}
    /\ Priced(handler[p]).earnedPoints > 0

OutstandingPoints(u) ==
    SumOver([p \in Procs |-> handler[p].req.UsePoints],
            {p \in Procs : handler[p].req.UserID = u /\ Outstanding(p)})

CreditedPoints(u) ==
    SumOver([p \in Procs |-> IF Credited(p) THEN Priced(handler[p]).earnedPoints ELSE 0],
            {p \in Procs : handler[p].req.UserID = u /\ Credited(p)})

C7_NoOverRedemption ==
    \A u \in UserIDs :
        /\ users[u].CurrentPoints >= 0
        /\ OutstandingPoints(u) <= InitUsers[u].CurrentPoints + CreditedPoints(u)

\* two checkouts of one user both passed validation asking together for more
\* points than the user holds; one reserved, the other was refused by usePoints
C7_Witness ==
    \E p, q \in Procs :
        /\ p # q
        /\ handler[p].req.UserID = handler[q].req.UserID
        /\ Outstanding(p)
        /\ handler[q].code = 500
        /\ handler[p].req.UsePoints + handler[q].req.UsePoints
               > InitUsers[handler[p].req.UserID].CurrentPoints


(***************************************************************************)
(* C8: a checkout rejected at validation changes no state.  No step that   *)
(* a handler takes while it validates (header checks, item loop) changes   *)
(* the stock lines, the users, the order store, the order id counter or    *)
(* the point history, or calls the gateway; a handler that returns from    *)
(* validation returns 400 or 404 with no order id taken, no points         *)
(* reserved and the gateway never called.                                  *)
(***************************************************************************)
C8_RejectionChangesNothing ==
    [][\A p \in Procs :
        LET h == handler[p]
            h2 == handler'[p]
        IN  (h2 # h /\ h.pc \in {"idle", "validate"}) =>
              /\ shared' = shared
              /\ gateway' = gateway
              /\ (h2.pc = "done") =>
                    /\ h2.code \in {400, 404}
                    /\ h2.orderID = 0
                    /\ ~h2.pointsUsed
                    /\ gateway[p] = <<>>]_vars

\* a request that was acceptable at first was refused for stock that a
\* completed checkout had taken in the meantime
C8_Witness ==
    \E p, q \in Procs :
        /\ handler[p].pc = "done" /\ handler[p].code = 400
        /\ handler[p].req \in AcceptableRequests
        /\ handler[p].req.UsePoints <= users[handler[p].req.UserID].CurrentPoints
        /\ Completed(q)

(***************************************************************************)
(* C9: a checkout whose payment succeeds and whose every line item is      *)
(* allocated is stored "completed"; each of its allocations lowers the     *)
(* total stock of the product by exactly the ordered quantity; its         *)
(* addPoints step raises the balance by the earned points; its update      *)
(* step raises lifetime spend by the final charge and sets the tier from   *)
(* the new spend.  Refuted in the stock part: the plan of allocateStock,   *)
(* built from unlocked reads, can sum to more than the ordered quantity.   *)
(***************************************************************************)
C9_CompletedSettles ==
    [][\A p \in Procs :
        LET h == handler[p]
            h2 == handler'[p]
            u == h.req.UserID
        IN  (h2 # h /\ h.paymentResult = "success") =>
              /\ (h.pc = "alloc_commit") =>
                    TotalQuantity(CurrentItem(h).ProductID)' =
                        TotalQuantity(CurrentItem(h).ProductID) - CurrentItem(h).Quantity
              /\ (h.pc = "addPoints") =>
                    users'[u].CurrentPoints = users[u].CurrentPoints + Priced(h).earnedPoints
              /\ (h.pc = "updateRank") =>
                    /\ users'[u].TotalSpentAmount =
                           users[u].TotalSpentAmount + Priced(h).totalPrice
                    /\ users'[u].MemberRank = calculateMemberRank(users'[u].TotalSpentAmount)
              /\ (h2.pc = "done" /\ h2.allocated = Len(h2.req.Items)) =>
                    /\ h2.status = "completed"
                    /\ orders'[h2.orderID].Status = "completed"]_vars

(***************************************************************************)
(* C10: when payment succeeds and the allocation of a line item fails,     *)
(* the step that marks the order "payment_failed" gives back the reserved  *)
(* points (and moves no balance when none were reserved), no step of the   *)
(* attempt after the payment credits points or raises lifetime spend, and  *)
(* the handler returns 409 with the order stored as "payment_failed".      *)
(***************************************************************************)
C10_AllocationFailureCompensates ==
    [][\A p \in Procs :
        LET h == handler[p]
            h2 == handler'[p]
            u == h.req.UserID
        IN  (h2 # h /\ h.paymentResult = "success" /\ h2.status # "completed") =>
              /\ users'[u].TotalSpentAmount = users[u].TotalSpentAmount
              /\ users'[u].MemberRank = users[u].MemberRank
              /\ \A id \in DOMAIN pointHistories' \ DOMAIN pointHistories :
                    pointHistories'[id].Type = "rollback"
              /\ (h.status # "payment_failed" /\ h2.status = "payment_failed") =>
                    users'[u].CurrentPoints = users[u].CurrentPoints
                        + (IF h.pointsUsed THEN h.req.UsePoints ELSE 0)
              /\ (h.status = h2.status) =>
                    users'[u].CurrentPoints = users[u].CurrentPoints
              /\ (h2.pc = "done") =>
                    /\ h.status = "payment_failed"
                    /\ h2.code = 409
                    /\ orders'[h2.orderID].Status = "payment_failed"
                    /\ orders'[h2.orderID].UserID = u]_vars

\* the Gold user paid twice for the one unit of product 5: one checkout
\* completed, the other got 409 and its 600 reserved points back
C10_Witness ==
    \E p, q \in Procs :
        /\ handler[p].pc = "done"
        /\ handler[p].code = 409
        /\ handler[p].pointsUsed
        /\ handler[p].req.UserID = 2
        /\ Completed(q)
        /\ handler[q].req = handler[p].req
        /\ users[2].CurrentPoints = InitUsers[2].CurrentPoints - handler[q].req.UsePoints
        /\ users[2].TotalSpentAmount = InitUsers[2].TotalSpentAmount

(***************************************************************************)
(* C11: allocateStock(P, q) is all-or-nothing.  A call whose snapshot saw  *)
(* a total stock of P (the sum of its lines with Quantity > 0, as          *)
(* getProductStock counts it) below q changes no stock line in any of its  *)
(* steps, never reaches the decrement, and returns false with no plan.     *)
(* The only step of a call that changes a stock line is its decrement,     *)
(* which lowers every line of P named in the plan by the planned quantity  *)
(* in one step, touches no other line, and is the step that returns true.  *)
(***************************************************************************)
InAllocateStock(h) ==
    h.pc \in {"alloc_snapshot", "alloc_cmp", "alloc_take", "alloc_sub", "alloc_commit"}

C11_AllocateAllOrNothing ==
    [][\A p \in Procs :
        LET h == handler[p]
            h2 == handler'[p]
            P == CurrentItem(h).ProductID
            q == CurrentItem(h).Quantity
            short == IF h.pc = "alloc_snapshot" THEN getProductStock(P) < q
                     ELSE h.shortAtCall
        IN  (h2 # h /\ InAllocateStock(h)) =>
              /\ short =>
                    /\ stocks' = stocks
                    /\ h2.pc # "alloc_commit"
                    /\ h2.allocated = h.allocated
                    /\ (~InAllocateStock(h2)) =>
                          /\ h2.allocations = <<>>
                          /\ h2.pc \in {"rollback", "store"}
              /\ (h.pc # "alloc_commit") =>
                    /\ stocks' = stocks
                    /\ h2.allocated = h.allocated
              /\ (h.pc = "alloc_commit") =>
                    /\ h2.allocated = h.allocated + 1
                    /\ DOMAIN stocks' = DOMAIN stocks
                    /\ \A key \in DOMAIN stocks :
                          stocks'[key] = stocks[key] -
                              (IF key[1] = P /\ key[2] \in DOMAIN h.allocations
                               THEN h.allocations[key[2]] ELSE 0)]_vars

\* user 3 alone orders product 3 twice in one cart, 1 unit then 4: the first
\* call took 1 of the 4 units, the second found 3 < 4, returned false and left
\* the 3 units where they were
C11_Witness ==
    \E p \in Procs :
        /\ handler[p].pc = "done"
        /\ handler[p].code = 409
        /\ handler[p].req.Items = <<Item(3, 1), Item(3, 4)>>
        /\ handler[p].allocated = 1
        /\ \A q \in Procs \ {p} : handler[q].pc = "idle"
        /\ TotalQuantity(3) = InitTotal(3) - 1
        /\ C1_StockNeverNegative

(***************************************************************************)
(* C12: every checkout attempt calls the payment gateway at most once.     *)
(* The call has been made exactly when the attempt has a payment result;   *)
(* an attempt that waits before the call has made none, an attempt that    *)
(* returns 400, 404 or 500 never made one, and an attempt that returns     *)
(* anything else made exactly one, whether the payment was declined or the *)
(* allocation failed after it.  The call carries the final charge of the   *)
(* attempt and its order id, and the step that stores the order stores it  *)
(* under that id with that charge as total.                                *)
(***************************************************************************)
C12_GatewayCalledOnce ==
    [][\A p \in Procs :
        LET h == handler[p]
            h2 == handler'[p]
            g == gateway'[p]
        IN  /\ Len(g) <= 1
            /\ (Len(g) = 1) <=> (h2.paymentResult # "none")
            /\ (h2.pc \in {"idle", "validate", "price", "usePoints", "pay"}) => Len(g) = 0
            /\ (h2.pc = "done") => ((Len(g) = 0) <=> (h2.code \in {400, 404, 500}))
            /\ (Len(g) = 1) =>
                  /\ g[1].amount = Priced(h2).totalPrice
                  /\ g[1].orderID = h2.orderID
            /\ (h.pc = "store" /\ h2.pc = "done") =>
                  /\ Len(g) = 1
                  /\ g[1].orderID \in DOMAIN orders'
                  /\ orders'[g[1].orderID].ID = g[1].orderID
                  /\ orders'[g[1].orderID].UserID = h2.req.UserID
                  /\ orders'[g[1].orderID].Items = h2.req.Items
                  /\ orders'[g[1].orderID].TotalPrice = g[1].amount]_vars

\* one attempt was declined, another was charged and then failed to allocate
\* (user 3's cart asking for product 3 twice): each called the gateway once,
\* with the charge and the id found on its stored order
C12_Witness ==
    \E p, q \in Procs :
        /\ handler[p].pc = "done" /\ handler[p].code = 402
        /\ handler[q].pc = "done" /\ handler[q].code = 409
        /\ Len(gateway[p]) = 1 /\ Len(gateway[q]) = 1
        /\ gateway[p][1].orderID # gateway[q][1].orderID
        /\ gateway[p][1].amount > 0
        /\ orders[gateway[p][1].orderID].TotalPrice = gateway[p][1].amount
        /\ orders[gateway[q][1].orderID].TotalPrice = gateway[q][1].amount
        /\ orders[gateway[q][1].orderID].Status = "payment_failed"

(***************************************************************************)
(* C14: when usePoints finds the balance below the requested points,       *)
(* although validation had accepted the request, the attempt returns 500   *)
(* in that step: the step changes no stock line, no user, no order, no     *)
(* point history and not the order id counter, the gateway has not been    *)
(* and is not called, and no earlier step of the attempt changed any of    *)
(* these either.  An attempt returns 500 in no other way.                  *)
(***************************************************************************)
C14_FailedReservationAborts ==
    [][\A p \in Procs :
        LET h == handler[p]
            h2 == handler'[p]
            short == users[h.req.UserID].CurrentPoints < h.req.UsePoints
        IN  (h2 # h) =>
              /\ (h.pc \in {"idle", "validate", "price"}) =>
                    (shared' = shared /\ gateway' = gateway)
              /\ (h.pc = "usePoints" /\ short) =>
                    /\ h2.pc = "done" /\ h2.code = 500
                    /\ ~h2.pointsUsed
                    /\ shared' = shared
                    /\ gateway' = gateway /\ gateway[p] = <<>>
              /\ (h2.code = 500) => (h.pc = "usePoints" /\ short)]_vars

\* two checkouts of user 3 (275 points) each ask for 200: one reserved and
\* waits to pay, the other got 500; the balance shows one debit only and the
\* order store and the stock are as they were
C14_Witness ==
    \E p, q \in Procs :
        /\ handler[p].req.UserID = 3 /\ handler[p].req = handler[q].req
        /\ handler[p].pc = "pay" /\ handler[p].pointsUsed
        /\ handler[q].pc = "done" /\ handler[q].code = 500
        /\ users[3].CurrentPoints = InitUsers[3].CurrentPoints - handler[p].req.UsePoints
        /\ orders = InitOrders
        /\ stocks = InitStocks
        /\ gateway[q] = <<>>

(***************************************************************************)
(* Lock discipline of createOrderHandler up to the payment gateway call.   *)
(* This second specification follows every Lock, RLock, Unlock and RUnlock *)
(* statement a checkout executes from the first validation read to the     *)
(* return of paymentGateway.ProcessPayment, one statement per step.  Data  *)
(* is abstracted away: every branch of the code is a free choice, so each  *)
(* run of the code is a run of this machine.  A handler is a position in   *)
(* the code and the set of locks it holds.                                 *)
(***************************************************************************)
Step(op, mutex, next) == [op |-> op, mutex |-> mutex, next |-> next]

\* header validation: balance and rank read, coupon lookup
HeaderLocks ==
    ("start"  :> Step("branch", "", {"return", "u1"})) @@
    ("u1"     :> Step("RLock", "userMux", {"u2"})) @@
    ("u2"     :> Step("RUnlock", "userMux", {"return", "c1", "p1"})) @@
    ("c1"     :> Step("RLock", "couponMux", {"c2"})) @@
    ("c2"     :> Step("RUnlock", "couponMux", {"return", "p1"}))

\* item loop under productMux.RLock, with getProductStock called per item
ItemLoopLocks ==
    ("p1"     :> Step("RLock", "productMux", {"item"})) @@
    ("item"   :> Step("branch", "", {"p_ret", "s1"})) @@
    ("s1"     :> Step("RLock", "stockMux", {"line"})) @@
    ("line"   :> Step("branch", "", {"w1", "s2"})) @@
    ("w1"     :> Step("RLock", "warehouseMux", {"w2"})) @@
    ("w2"     :> Step("RUnlock", "warehouseMux", {"line"})) @@
    ("s2"     :> Step("RUnlock", "stockMux", {"p_ret", "item", "p2"})) @@
    ("p_ret"  :> Step("RUnlock", "productMux", {"return"})) @@
    ("p2"     :> Step("RUnlock", "productMux", {"priced"})) @@
    ("priced" :> Step("branch", "", {"up1", "gw"}))

\* faulty variant of usePointsLocks: userMux is not released when usePoints
\* returns true
usePointsLocksKeepingUserMux ==
    ("up1"    :> Step("Lock", "userMux", {"held"})) @@
    ("held"   :> Step("branch", "", {"ph1", "up_fail"})) @@
    ("ph1"    :> Step("Lock", "pointHistoryMux", {"ph2"})) @@
    ("ph2"    :> Step("Unlock", "pointHistoryMux", {"gw"})) @@
    ("up_fail" :> Step("Unlock", "userMux", {"return"}))

\* usePoints: userMux.Lock with deferred Unlock, pointHistoryMux inside
usePointsLocks ==
    ("up1"    :> Step("Lock", "userMux", {"held"})) @@
    ("held"   :> Step("branch", "", {"ph1", "up_fail"})) @@
    ("ph1"    :> Step("Lock", "pointHistoryMux", {"ph2"})) @@
    ("ph2"    :> Step("Unlock", "pointHistoryMux", {"up2"})) @@
    ("up2"    :> Step("Unlock", "userMux", {"gw"})) @@
    ("up_fail" :> Step("Unlock", "userMux", {"return"}))

\* the gateway call: entered at "gw", in progress at "ingw"
GatewayCallSteps ==
    ("gw"     :> Step("call", "", {"ingw"})) @@
    ("ingw"   :> Step("return", "", {"paid"}))

LockProgram == HeaderLocks @@ ItemLoopLocks @@ usePointsLocks @@ GatewayCallSteps

\* position and locks of a checkout that has not started
LockIdle == [pc |-> "start", held |-> {}]

LockInit ==
    /\ stocks = InitStocks
    /\ users = InitUsers
    /\ orders = InitOrders
    /\ nextOrderID = 3
    /\ pointHistories = InitPointHistories
    /\ nextPointHistoryID = 3
    /\ wishlists = <<>>
    /\ gateway = [p \in Procs |-> <<>>]
    /\ handler = [p \in Procs |-> LockIdle]

\* the statement handler p is about to execute, if any
AtStatement(p) == handler[p].pc \in DOMAIN LockProgram

Holding(mutex, mode) == [mutex |-> mutex, mode |-> mode]

\* sync.RWMutex: a reader waits for the writer, a writer waits for everybody
Grantable(p, mutex, op) ==
    \A q \in Procs \ {p} :
        /\ Holding(mutex, "W") \notin handler[q].held
        /\ (op = "Lock") => Holding(mutex, "R") \notin handler[q].held

LockAcquire(p) ==
    /\ AtStatement(p)
    /\ LET st == LockProgram[handler[p].pc]
           mode == IF st.op = "Lock" THEN "W" ELSE "R"
       IN  /\ st.op \in {"Lock", "RLock"}
           /\ Grantable(p, st.mutex, st.op)
           /\ \E next \in st.next :
                 handler' = [handler EXCEPT ![p] =
                     [pc |-> next, held |-> handler[p].held \cup {Holding(st.mutex, mode)}]]
    /\ UNCHANGED <<shared, gateway>>

LockRelease(p) ==
    /\ AtStatement(p)
    /\ LET st == LockProgram[handler[p].pc]
           mode == IF st.op = "Unlock" THEN "W" ELSE "R"
       IN  /\ st.op \in {"Unlock", "RUnlock"}
           /\ \E next \in st.next :
                 handler' = [handler EXCEPT ![p] =
                     [pc |-> next, held |-> handler[p].held \ {Holding(st.mutex, mode)}]]
    /\ UNCHANGED <<shared, gateway>>

\* an if, a loop head or a return that takes no lock
LockBranch(p) ==
    /\ AtStatement(p)
    /\ LockProgram[handler[p].pc].op = "branch"
    /\ \E next \in LockProgram[handler[p].pc].next :
         handler' = [handler EXCEPT ![p].pc = next]
    /\ UNCHANGED <<shared, gateway>>

\* paymentGateway.ProcessPayment is entered
GatewayEnter(p) ==
    /\ AtStatement(p)
    /\ LockProgram[handler[p].pc].op = "call"
    /\ handler' = [handler EXCEPT ![p].pc = "ingw"]
    /\ UNCHANGED <<shared, gateway>>

\* paymentGateway.ProcessPayment returns; the gateway itself takes no lock
GatewayLeave(p) ==
    /\ AtStatement(p)
    /\ LockProgram[handler[p].pc].op = "return"
    /\ handler' = [handler EXCEPT ![p].pc = "paid"]
    /\ UNCHANGED <<shared, gateway>>

LockNext ==
    \E p \in Procs :
        \/ LockAcquire(p)
        \/ LockRelease(p)
        \/ LockBranch(p)
        \/ GatewayEnter(p)
        \/ GatewayLeave(p)

LockSpec == LockInit /\ [][LockNext]_vars

(***************************************************************************)
(* C13: a checkout whose payment gateway call is in progress holds none of *)
(* the resource locks, and no other checkout that waits to acquire a lock  *)
(* is kept waiting by it.                                                  *)
(***************************************************************************)
\* handler q is at a Lock or RLock statement that p's holdings keep from returning
KeptWaitingBy(q, p) ==
    /\ AtStatement(q)
    /\ LockProgram[handler[q].pc].op \in {"Lock", "RLock"}
    /\ \E hd \in handler[p].held :
          /\ hd.mutex = LockProgram[handler[q].pc].mutex
          /\ hd.mode = "W" \/ LockProgram[handler[q].pc].op = "Lock"

C13_NoLockAcrossGateway ==
    \A p \in Procs :
        (handler[p].pc = "ingw") =>
            /\ handler[p].held = {}
            /\ \A q \in Procs \ {p} : ~KeptWaitingBy(q, p)

\* one checkout is inside the gateway call while another, inside usePoints,
\* holds userMux and pointHistoryMux for writing
C13_Witness ==
    \E p, q \in Procs :
        /\ handler[p].pc = "ingw"
        /\ handler[q].pc = "ph2"
        /\ handler[q].held = {Holding("userMux", "W"), Holding("pointHistoryMux", "W")}

(***************************************************************************)
(* The pricing functions on their own.  This third specification draws an  *)
(* input for one of the pure functions of the charge path and applies the  *)
(* function in one step: the payment amount algorithm to a cart, a tier,   *)
(* a coupon and a number of points; calculateCouponDiscount to a coupon    *)
(* and a base amount; the rank discount to a subtotal and a tier.  Amounts *)
(* of carts and coupons stay below 2^31, where Go's int does not wrap;     *)
(* subtotals of the rank discount range over the int values up to 2^53+1.  *)
(***************************************************************************)
\* products of init(), of the handler tests (200..202) and created by an
\* administrator (5..8)
PricingCatalog ==
    (1 :> [Price |-> 120000]) @@ (2 :> [Price |-> 3000]) @@
    (3 :> [Price |-> 25000]) @@ (4 :> [Price |-> 15000]) @@
    (5 :> [Price |-> 1000]) @@ (6 :> [Price |-> 4545]) @@
    (7 :> [Price |-> 4546]) @@ (8 :> [Price |-> 99]) @@
    (200 :> [Price |-> 1000]) @@ (201 :> [Price |-> 2000]) @@
    (202 :> [Price |-> 3000])

\* carts with positive quantities
PricingCarts ==
    { <<Item(id, quantity)>> : id \in DOMAIN PricingCatalog, quantity \in 1..3 }
    \cup { <<Item(200, 2), Item(201, 1)>>, <<Item(8, 1), Item(5, 4)>> }

Ranks == {"Normal", "Silver", "Gold"}

\* the coupons of init(), the coupon of unknown type of the coupon tests, and
\* coupons at the ends of the amount range
PricingCoupons ==
    { coupons[code] : code \in DOMAIN coupons }
    \cup { [Type |-> "invalid_type", Amount |-> 1000],
           [Type |-> "percentage", Amount |-> 0],
           [Type |-> "percentage", Amount |-> 100],
           [Type |-> "percentage", Amount |-> 150],
           [Type |-> "fixed", Amount |-> 0],
           [Type |-> "fixed", Amount |-> 1000000] }

PricingPoints == {0, 200, 600, 200000}

BaseAmounts == {0, 1, 9, 10, 500, 999, 1000, 1001, 4400, 5000, 10000}

\* subtotals as limbs: small ones, and 4692585288648433, 6755439945173499,
\* 10^15, 2^52 and 2^53 + 1
RankSubtotals ==
    { BigFromInt(n) : n \in {0, 1, 19, 20, 33, 34, 99, 100, 4000, 25000, 75000,
                             120000, 360000, 2147483647} }
    \cup { BigFromHex(ds, <<>>) : ds \in
             { <<1, 0, 10, 11, 14, 1, 10, 7, 3, 5, 4, 6, 15, 1>>,
               <<1, 8, 0, 0, 0, 9, 6, 14, 3, 11, 12, 9, 15, 11>>,
               <<3, 8, 13, 7, 14, 10, 4, 12, 6, 8, 0, 0, 0>>,
               <<1, 0, 0, 0, 0, 0, 0, 0, 0, 0, 0, 0, 0, 0>>,
               <<2, 0, 0, 0, 0, 0, 0, 0, 0, 0, 0, 0, 0, 1>> } }

\* an input waiting for its function: pc says which one
PricingInput(pc, items, rank, coupon, points, base, subtotal) ==
    [pc |-> pc, items |-> items, rank |-> rank, coupon |-> coupon,
     usePoints |-> points, base |-> base, subtotal |-> subtotal, result |-> <<>>]

PricingInputs ==
    { PricingInput("cart", items, rank, coupon, points, 0, <<>>) :
        items \in PricingCarts, rank \in Ranks,
        coupon \in PricingCoupons \cup {NilCoupon}, points \in PricingPoints }
    \cup { PricingInput("coupon", <<>>, "", coupon, 0, base, <<>>) :
        coupon \in PricingCoupons \cup {NilCoupon}, base \in BaseAmounts }
    \cup { PricingInput("rank", <<>>, rank, NilCoupon, 0, 0, subtotal) :
        rank \in Ranks, subtotal \in RankSubtotals }

PricingInit ==
    /\ stocks = InitStocks
    /\ users = InitUsers
    /\ orders = InitOrders
    /\ nextOrderID = 3
    /\ pointHistories = InitPointHistories
    /\ nextPointHistoryID = 3
    /\ wishlists = <<>>
    /\ gateway = [p \in Procs |-> <<>>]
    /\ handler \in PricingInputs

\* the payment amount algorithm
PriceCart ==
    /\ handler.pc = "cart"
    /\ handler' = [handler EXCEPT
           !.pc = "priced",
           !.result = PricingOf(SubtotalIn(PricingCatalog, handler.items), handler.rank,
                                handler.coupon, handler.usePoints)]
    /\ UNCHANGED <<shared, gateway>>

DiscountCoupon ==
    /\ handler.pc = "coupon"
    /\ handler' = [handler EXCEPT
           !.pc = "discounted",
           !.result = calculateCouponDiscount(handler.coupon, handler.base)]
    /\ UNCHANGED <<shared, gateway>>

DiscountRank ==
    /\ handler.pc = "rank"
    /\ handler' = [handler EXCEPT
           !.pc = "ranked",
           !.result = RankDiscountOf(handler.subtotal, handler.rank)]
    /\ UNCHANGED <<shared, gateway>>

PricingNext == PriceCart \/ DiscountCoupon \/ DiscountRank

PricingSpec == PricingInit /\ [][PricingNext]_vars

(***************************************************************************)
(* Amounts as the specification states them, in integer arithmetic.        *)
(***************************************************************************)
Min(a, b) == IF a < b THEN a ELSE b

\* tier rate in percent: top tier 5, mid tier 3, base tier 0
TierPercent(rank) ==
    CASE rank = "Gold" -> 5
      [] rank = "Silver" -> 3
      [] OTHER -> 0

\* floor(subtotal * rate)
TierDiscount(subtotal, rank) == (subtotal * TierPercent(rank)) \div 100

\* tier-discounted subtotal plus its floor-divided 10% tax
TaxInclusive(subtotal, rank) ==
    (subtotal - TierDiscount(subtotal, rank))
        + (subtotal - TierDiscount(subtotal, rank)) \div 10

\* min(amount, base) for a fixed coupon, min(floor(base * amount / 100), base)
\* for a percentage coupon, 0 for no coupon or an unknown type
CouponDiscount(coupon, base) ==
    CASE coupon.Type = "fixed" -> Min(coupon.Amount, base)
      [] coupon.Type = "percentage" -> Min((base * coupon.Amount) \div 100, base)
      [] OTHER -> 0

\* 500 below the free-shipping threshold of 5000, never for the top tier
Shipping(taxInclusive, rank) ==
    IF rank = "Gold" THEN 0 ELSE IF taxInclusive < 5000 THEN 500 ELSE 0

\* the charge after tier discount, tax, coupon, shipping and points
FinalCharge(subtotal, rank, coupon, points) ==
    LET T == TaxInclusive(subtotal, rank)
        amount == T - CouponDiscount(coupon, T) + Shipping(T, rank) - points
    IN  IF amount < 0 THEN 0 ELSE amount

\* subtotal of the cart that was priced
PricedSubtotal == SubtotalIn(PricingCatalog, handler.items)

(***************************************************************************)
(* C15: for every cart with positive quantities, every tier, every coupon  *)
(* with a non-negative amount and every pointsToUse >= 0, the              *)
(* tier-discounted subtotal, the tax-inclusive amount, the post-coupon     *)
(* amount, the amount after shipping and the final charge (the amount      *)
(* after points) are all >= 0.                                             *)
(***************************************************************************)
C15_AmountsNeverNegative ==
    (handler.pc = "priced") =>
        /\ handler.result.discountedSubtotal >= 0
        /\ handler.result.subtotalWithTax >= 0
        /\ handler.result.afterCouponAmount >= 0
        /\ handler.result.afterCouponAmount + handler.result.shippingFee >= 0
        /\ handler.result.totalPrice >= 0

\* one unit at 99: the 1000 coupon is cut to the 108 it applies to, and
\* 200000 points against the remaining 500 of shipping leave a charge of 0
C15_Witness ==
    /\ handler.pc = "priced"
    /\ handler.result.subtotalWithTax = 108
    /\ handler.coupon = coupons["FLAT1000"]
    /\ handler.result.afterCouponAmount = 0
    /\ handler.result.shippingFee = 500
    /\ handler.usePoints = 200000
    /\ handler.result.totalPrice = 0

(***************************************************************************)
(* C16: the earned points of every priced checkout are                     *)
(* floor(finalCharge / 100), finalCharge being the amount after tier       *)
(* discount, tax, coupon, shipping and points redemption.                  *)
(***************************************************************************)
C16_EarnedFromFinalCharge ==
    (handler.pc = "priced") =>
        /\ handler.result.totalPrice =
               FinalCharge(PricedSubtotal, handler.rank, handler.coupon, handler.usePoints)
        /\ handler.result.earnedPoints = handler.result.totalPrice \div 100

\* the cart of 4900 paid with 200 points earns 47 points, not the 49 of the
\* amount before points
C16_Witness ==
    /\ handler.pc = "priced"
    /\ handler.usePoints = 200
    /\ handler.result.afterCouponAmount + handler.result.shippingFee = 4900
    /\ handler.result.totalPrice = 4700
    /\ handler.result.earnedPoints = 47

(***************************************************************************)
(* C17: calculateCouponDiscount(coupon, base) never returns more than      *)
(* base: min(amount, base) for a fixed coupon,                             *)
(* min(floor(base * amount / 100), base) for a percentage coupon, 0 for a  *)
(* nil coupon or an unknown type.  In a checkout the base is the           *)
(* tax-inclusive amount without shipping, and the shipping fee is the one  *)
(* of the same cart without coupon and is charged in full: before points   *)
(* the amount is at least the fee.                                         *)
(***************************************************************************)
C17_CouponWithinBase ==
    /\ (handler.pc = "discounted") =>
          /\ handler.result <= handler.base
          /\ handler.result = CouponDiscount(handler.coupon, handler.base)
    /\ (handler.pc = "priced") =>
          LET r == handler.result
              plain == PricingOf(PricedSubtotal, handler.rank, NilCoupon, handler.usePoints)
          IN  /\ r.couponDiscountAmount <= r.subtotalWithTax
              /\ r.couponDiscountAmount = CouponDiscount(handler.coupon, r.subtotalWithTax)
              /\ r.subtotalWithTax = plain.subtotalWithTax
              /\ r.shippingFee = plain.shippingFee
              /\ r.afterCouponAmount + r.shippingFee >= r.shippingFee
              /\ r.totalPrice = AfterPoints(r.subtotalWithTax - r.couponDiscountAmount
                                               + r.shippingFee, handler.usePoints)

\* FLAT1000 on a base of 500 gives 500
C17_Witness ==
    /\ handler.pc = "discounted"
    /\ handler.coupon = coupons["FLAT1000"]
    /\ handler.base = 500
    /\ handler.result = 500

(***************************************************************************)
(* C18: for a base-tier user redeeming no points the total is              *)
(* T - couponDiscount(T) + shipping, with s the sum of price * quantity,   *)
(* T = s + floor(s / 10), shipping 500 when T < 5000 and 0 otherwise; the  *)
(* cart {1000 x 2, 2000 x 1} costs 4900 without coupon and 3900 with       *)
(* FLAT1000.                                                               *)
(***************************************************************************)
C18_BaseTierTotal ==
    (handler.pc = "priced" /\ handler.rank = "Normal" /\ handler.usePoints = 0) =>
        LET sub == PricedSubtotal
            T == sub + sub \div 10
            shipping == IF T < 5000 THEN 500 ELSE 0
            example == handler.items = <<Item(200, 2), Item(201, 1)>>
        IN  /\ handler.result.totalPrice = T - CouponDiscount(handler.coupon, T) + shipping
            /\ (example /\ handler.coupon = NilCoupon) => handler.result.totalPrice = 4900
            /\ (example /\ handler.coupon = coupons["FLAT1000"]) =>
                   handler.result.totalPrice = 3900

\* the example cart with FLAT1000: 4400 - 1000 + 500
C18_Witness ==
    /\ handler.pc = "priced"
    /\ handler.rank = "Normal"
    /\ handler.usePoints = 0
    /\ handler.items = <<Item(200, 2), Item(201, 1)>>
    /\ handler.coupon = coupons["FLAT1000"]
    /\ handler.result.subtotalWithTax = 4400
    /\ handler.result.shippingFee = 500
    /\ handler.result.totalPrice = 3900

(***************************************************************************)
(* C19: the tier discount is computed in integer arithmetic: for every     *)
(* subtotal >= 0 it is floor(subtotal * 5 / 100) for Gold,                 *)
(* floor(subtotal * 3 / 100) for Silver and 0 for the base tier.           *)
(* Refuted: the code multiplies float64(subtotal) by a float64 rate and    *)
(* truncates; for the Silver subtotal 4692585288648433 the product rounds  *)
(* up to 140777558659453, one more than floor(subtotal * 3 / 100).         *)
(***************************************************************************)
C19_TierDiscountIsIntegerFloor ==
    (handler.pc = "ranked") =>
        handler.result =
            BigDivSmall(BigMulSmall(handler.subtotal, TierPercent(handler.rank), 0), 100)

(***************************************************************************)
(* C20: the shipping fee is 0 for every Gold user whatever the amount; for *)
(* any other user it is 500 exactly when the tax-inclusive amount, the     *)
(* tier-discounted subtotal plus its floor-divided 10% tax, before coupon  *)
(* and points, is below 5000, and 0 otherwise.                             *)
(***************************************************************************)
C20_ShippingFee ==
    (handler.pc = "priced") =>
        LET T == TaxInclusive(PricedSubtotal, handler.rank) IN
        /\ (handler.rank = "Gold") => handler.result.shippingFee = 0
        /\ (handler.rank # "Gold" /\ T < 5000) => handler.result.shippingFee = 500
        /\ (handler.rank # "Gold" /\ T >= 5000) => handler.result.shippingFee = 0

\* a Gold user's cart of 99 ships free, coupon and points or not
C20_Witness ==
    /\ handler.pc = "priced"
    /\ handler.rank = "Gold"
    /\ handler.result.subtotalWithTax < 5000
    /\ handler.result.shippingFee = 0
    /\ handler.coupon # NilCoupon
    /\ handler.usePoints > 0

(***************************************************************************)
(* Checkout properties that speak about the amounts as the specification   *)
(* states them.                                                            *)
(***************************************************************************)
\* the coupon a request names, NilCoupon when it names none
RequestCoupon(r) == IF r.CouponCode = "" THEN NilCoupon ELSE coupons[r.CouponCode]

\* the amount due after coupon and shipping, before points
AmountDue(r, rank) ==
    LET T == TaxInclusive(Subtotal(r.Items), rank)
    IN  T - CouponDiscount(RequestCoupon(r), T) + Shipping(T, rank)

\* request r of a user of tier rank redeems more points than is due
Overpaying(r, rank) == r.UsePoints > AmountDue(r, rank)

(***************************************************************************)
(* C21: a checkout whose pointsToUse is within the user's balance but      *)
(* larger than the amount due after coupon and shipping is accepted, not   *)
(* rejected, and its final charge is exactly 0.  A request with a          *)
(* non-empty cart, a known coupon and 0 <= pointsToUse <= balance passes   *)
(* header validation; item validation rejects only for an item with a      *)
(* quantity <= 0, an unknown product or too little stock; such a request   *)
(* is priced at 0, goes on to reserve its points, and the gateway is asked *)
(* for 0.                                                                  *)
(***************************************************************************)
C21_OverRedemptionChargesZero ==
    [][\A p \in Procs :
          LET h == handler[p]
              h2 == handler'[p]
              r == h2.req
          IN  /\ ( /\ h.pc = "idle" /\ h2.pc # "idle"
                   /\ Len(r.Items) > 0
                   /\ r.CouponCode \in {""} \cup DOMAIN coupons
                   /\ 0 <= r.UsePoints
                   /\ r.UsePoints <= users[r.UserID].CurrentPoints )
                 => h2.pc = "validate"
              /\ (h.pc = "validate" /\ h2.pc = "done") =>
                     LET item == h.req.Items[h.i] IN
                     \/ item.Quantity <= 0
                     \/ item.ProductID \notin DOMAIN products
                     \/ getProductStock(item.ProductID) < item.Quantity
              /\ (h.pc = "price" /\ h2.pc # "price" /\ Overpaying(r, h.currentUserRank)) =>
                     /\ h2.priced.totalPrice = 0
                     /\ h2.pc = "usePoints"
              /\ (h.pc = "pay" /\ h2.pc # "pay" /\ Overpaying(r, h.currentUserRank)) =>
                     /\ Len(gateway'[p]) = 1
                     /\ gateway'[p][1].amount = 0
      ]_vars

\* the Gold user's cart of 1000 with FLAT1000 leaves 45 due; 600 points are
\* redeemed against it, the gateway is asked for 0 and the order completes
C21_Witness ==
    \E p \in Procs :
        /\ handler[p].pc = "done"
        /\ handler[p].code = 201
        /\ handler[p].req.UsePoints = 600
        /\ handler[p].req.UsePoints <= InitUsers[handler[p].req.UserID].CurrentPoints
        /\ AmountDue(handler[p].req, handler[p].currentUserRank) = 45
        /\ Len(gateway[p]) = 1
        /\ gateway[p][1].amount = 0
        /\ gateway[p][1].orderID = handler[p].orderID
        /\ handler[p].orderID \in DOMAIN orders
        /\ orders[handler[p].orderID].TotalPrice = 0

(***************************************************************************)
(* The point history of a user.                                            *)
(***************************************************************************)
\* ids of the history entries of user u
HistoryOf(u) == {id \in DOMAIN pointHistories : pointHistories[id].UserID = u}

\* ids of the history entries of user u of one type
HistoryOfType(u, type) == {id \in HistoryOf(u) : pointHistories[id].Type = type}

\* sum of the amounts of the history entries of user u of one type
HistoryAmount(u, type) ==
    SumOver([id \in DOMAIN pointHistories |-> pointHistories[id].Amount],
            HistoryOfType(u, type))

\* the balance the history of user u gives when replayed from 0
Replay(u) ==
    HistoryAmount(u, "earned") - HistoryAmount(u, "used") + HistoryAmount(u, "rollback")

\* id of the entry of user u written last
LatestEntry(u) == CHOOSE id \in HistoryOf(u) : \A other \in HistoryOf(u) : other <= id

(***************************************************************************)
(* C22: in every reachable state each user's current point balance equals  *)
(* the replay of that user's point history from a zero balance (the sum of *)
(* the "earned" amounts, minus the sum of the "used" amounts, plus the sum *)
(* of the "rollback" amounts), and the Balance field of the user's latest  *)
(* history entry equals the current balance.                               *)
(***************************************************************************)
C22_BalanceIsReplayOfHistory ==
    \A u \in DOMAIN users :
        /\ users[u].CurrentPoints = Replay(u)
        /\ HistoryOf(u) # {} =>
               pointHistories[LatestEntry(u)].Balance = users[u].CurrentPoints

\* user 3 has redeemed 200 points twice, got them back once and earned the
\* points of a completed order: entries of all three types, 4 of them new
C22_Witness ==
    /\ HistoryOfType(3, "used") # {}
    /\ HistoryOfType(3, "rollback") # {}
    /\ Cardinality(HistoryOfType(3, "earned")) = 2
    /\ Cardinality(HistoryOf(3)) = 5
    /\ users[3].CurrentPoints # InitUsers[3].CurrentPoints
    /\ users[3].CurrentPoints = Replay(3)

\* the tier the specification gives a lifetime spend
TierOfSpend(spend) ==
    IF spend >= 100000 THEN "Gold" ELSE IF spend >= 50000 THEN "Silver" ELSE "Normal"

(***************************************************************************)
(* C23: in every reachable state each user's tier equals the fixed         *)
(* threshold function of that user's lifetime spend (Gold when spend >=    *)
(* 100000, Silver when spend >= 50000, Normal otherwise); recomputing the  *)
(* tier with a zero spend delta, as the handler does for a completed order *)
(* with final charge 0, leaves spend and tier unchanged.                   *)
(***************************************************************************)
C23_TierFollowsSpend ==
    /\ [](\A u \in DOMAIN users : users[u].MemberRank = TierOfSpend(users[u].TotalSpentAmount))
    /\ [][\A p \in Procs :
            ( /\ handler[p].pc = "updateRank"
              /\ handler'[p].pc # "updateRank"
              /\ handler[p].priced.totalPrice = 0 )
            => users' = users
        ]_vars

\* user 3 has risen from Normal to Gold with a completed order, and the
\* tier of user 2 was recomputed for a completed order with final charge 0
C23_Witness ==
    /\ users[3].MemberRank = "Gold"
    /\ InitUsers[3].MemberRank = "Normal"
    /\ users[3].TotalSpentAmount = InitUsers[3].TotalSpentAmount + 82300
    /\ \E p \in Procs :
          /\ handler[p].req.UserID = 2
          /\ handler[p].pc \in {"readUser", "store", "done"}
          /\ handler[p].status = "completed"
          /\ handler[p].priced.totalPrice = 0
          /\ users[2] = [InitUsers[2] EXCEPT !.CurrentPoints = @ - 600]

\* the history entries up to id that agree with entry id on user, order and
\* amount and are of the given type
SameReservation(id, type, upTo) ==
    {j \in DOMAIN pointHistories :
        /\ j <= upTo
        /\ pointHistories[j].Type = type
        /\ pointHistories[j].UserID = pointHistories[id].UserID
        /\ pointHistories[j].OrderID = pointHistories[id].OrderID
        /\ pointHistories[j].Amount = pointHistories[id].Amount}

(***************************************************************************)
(* C24: a user's point balance increases only through a credit of earned   *)
(* points for a completed order or through a rollback; every rollback      *)
(* entry for an order follows a "used" entry of the same user, the same    *)
(* order and the same amount, and at most one rollback is made per         *)
(* reservation: up to any rollback entry there are at least as many such   *)
(* "used" entries before it as rollback entries.                           *)
(***************************************************************************)
C24_BalanceGrowsByCreditOrRollback ==
    /\ [](\A id \in DOMAIN pointHistories :
            pointHistories[id].Type = "rollback" =>
                Cardinality(SameReservation(id, "rollback", id))
                    <= Cardinality(SameReservation(id, "used", id - 1)))
    /\ [][\A u \in DOMAIN users :
            users'[u].CurrentPoints > users[u].CurrentPoints =>
                \E p \in Procs :
                    LET h == handler[p]
                        entry == pointHistories'[nextPointHistoryID]
                    IN  /\ handler'[p] # h
                        /\ h.req.UserID = u
                        /\ DOMAIN pointHistories' = DOMAIN pointHistories \cup {nextPointHistoryID}
                        /\ entry.UserID = u
                        /\ entry.OrderID = h.orderID
                        /\ entry.Amount = users'[u].CurrentPoints - users[u].CurrentPoints
                        /\ \/ /\ entry.Type = "earned"
                              /\ h.status = "completed"
                              /\ h.paymentResult = "success"
                              /\ entry.Amount = Order(h).EarnedPoints
                           \/ /\ entry.Type = "rollback"
                              /\ h.pointsUsed
                              /\ entry.Amount = h.req.UsePoints
        ]_vars

\* two checkouts of user 3 took the same order id, each reserved 200 points
\* and each gave them back: two "used" and two "rollback" entries of 200 for
\* order 3, alternating
C24_Witness ==
    /\ nextPointHistoryID = 7
    /\ \A id \in 3..6 :
          /\ pointHistories[id].UserID = 3
          /\ pointHistories[id].OrderID = 3
          /\ pointHistories[id].Amount = 200
    /\ pointHistories[3].Type = "used"
    /\ pointHistories[4].Type = "rollback"
    /\ pointHistories[5].Type = "used"
    /\ pointHistories[6].Type = "rollback"
    /\ users[3].CurrentPoints = InitUsers[3].CurrentPoints

(***************************************************************************)
(* C25: every stored order has a terminal status, "completed" or           *)
(* "payment_failed", from the moment it is stored, and the status of a     *)
(* stored order never changes afterwards.  Refuted: two checkouts in       *)
(* flight read the same order id, and the record the second one stores     *)
(* replaces the first under that id, with another status.                  *)
(***************************************************************************)
C25_StoredStatusIsFinal ==
    /\ [](\A id \in DOMAIN orders : orders[id].Status \in {"completed", "payment_failed"})
    /\ [][\A id \in DOMAIN orders :
            /\ id \in DOMAIN orders'
            /\ orders'[id].Status = orders[id].Status
        ]_vars

(***************************************************************************)
(* The inventory functions on their own.  This fourth specification draws  *)
(* a stocks map, a product and, for allocateStock, a required quantity,    *)
(* and lets one caller run getProductStock or allocateStock from start to  *)
(* end with no other goroutine at work.  The stocks maps are those the     *)
(* checkout can leave behind: lines of product 3 in the three warehouses   *)
(* and of product 5 in warehouse 1, each between -1 (the unvalidated       *)
(* decrement can overdraw a line) and 2; product 6 has no line.            *)
(***************************************************************************)
\* Name of the warehouses of init(): the Tokyo, Osaka and Fukuoka warehouses
WarehouseName(w) ==
    CASE w = 1 -> "Tokyo"
      [] w = 2 -> "Osaka"
      [] w = 3 -> "Fukuoka"

LineQuantities == -1..2

StockMaps ==
    { (StockKey(3, 1) :> a) @@ (StockKey(3, 2) :> b) @@ (StockKey(3, 3) :> c) @@
      (StockKey(5, 1) :> d) : a \in LineQuantities, b \in LineQuantities,
                              c \in LineQuantities, d \in LineQuantities }

StockProducts == {3, 5, 6}

RequiredQuantities == 1..4

\* a call that has not run yet
StockCall(fn, productID, requiredQuantity) ==
    [pc |-> fn, productID |-> productID, requiredQuantity |-> requiredQuantity,
     totalStock |-> 0, stockDetails |-> <<>>, allocated |-> FALSE, allocations |-> <<>>]

StockCalls ==
    { StockCall("getProductStock", productID, 0) : productID \in StockProducts }
    \cup { StockCall("allocateStock", productID, requiredQuantity) :
             productID \in StockProducts, requiredQuantity \in RequiredQuantities }

StockInit ==
    /\ stocks \in StockMaps
    /\ users = InitUsers
    /\ orders = InitOrders
    /\ nextOrderID = 3
    /\ pointHistories = InitPointHistories
    /\ nextPointHistoryID = 3
    /\ wishlists = <<>>
    /\ gateway = [p \in Procs |-> <<>>]
    /\ handler \in StockCalls

\* stockDetails after the range loop visited the kept lines in this order
StockDetails(productID, order) ==
    [n \in 1..Len(order) |->
        [WarehouseName |-> WarehouseName(order[n]),
         Quantity |-> stocks[StockKey(productID, order[n])]]]

\* totalStock after the range loop: totalStock += stock.Quantity per kept line
RECURSIVE TotalStock(_, _)
TotalStock(stockDetails, n) ==
    IF n = 0 THEN 0 ELSE TotalStock(stockDetails, n - 1) + stockDetails[n].Quantity

GetProductStock ==
    /\ handler.pc = "getProductStock"
    /\ \E order \in Orderings(AvailableWarehouses(handler.productID)) :
         LET stockDetails == StockDetails(handler.productID, order) IN
         handler' = [handler EXCEPT !.pc = "returned",
                                    !.stockDetails = stockDetails,
                                    !.totalStock = TotalStock(stockDetails, Len(order))]
    /\ UNCHANGED <<shared, gateway>>

\* remaining and allocations after the planning loop went over
\* availableStocks[k..]
RECURSIVE PlanAllocation(_, _, _, _, _)
PlanAllocation(productID, availableStocks, k, remaining, allocations) ==
    IF k > Len(availableStocks) \/ remaining <= 0
    THEN [remaining |-> remaining, allocations |-> allocations]
    ELSE LET w == availableStocks[k]
             quantity == stocks[StockKey(productID, w)]
         IN  IF quantity >= remaining
             THEN PlanAllocation(productID, availableStocks, k + 1, 0,
                                 (w :> remaining) @@ allocations)
             ELSE PlanAllocation(productID, availableStocks, k + 1, remaining - quantity,
                                 (w :> quantity) @@ allocations)

\* faulty variant of AllocateStockResult: the plan is committed whether or not
\* remaining is 0
AllocateStockResultOfPartialPlan(productID, requiredQuantity, order) ==
    LET plan == PlanAllocation(productID, order, 1, requiredQuantity, <<>>) IN
    [allocated |-> TRUE, allocations |-> plan.allocations]

\* what allocateStock returns when its snapshot loop visits the lines in this
\* order: (true, allocations) or (false, nil)
AllocateStockResult(productID, requiredQuantity, order) ==
    LET plan == PlanAllocation(productID, order, 1, requiredQuantity, <<>>) IN
    IF plan.remaining = 0
    THEN [allocated |-> TRUE, allocations |-> plan.allocations]
    ELSE [allocated |-> FALSE, allocations |-> <<>>]

AllocateStock ==
    /\ handler.pc = "allocateStock"
    /\ \E order \in Orderings(AvailableWarehouses(handler.productID)) :
         LET result == AllocateStockResult(handler.productID, handler.requiredQuantity, order)
         IN  /\ handler' = [handler EXCEPT !.pc = "returned",
                                           !.allocated = result.allocated,
                                           !.allocations = result.allocations]
             /\ stocks' = IF result.allocated
                          THEN Decremented(handler.productID, result.allocations)
                          ELSE stocks
    /\ UNCHANGED <<users, orders, nextOrderID, pointHistories, nextPointHistoryID, wishlists, gateway>>

StockNext == GetProductStock \/ AllocateStock

StockSpec == StockInit /\ [][StockNext]_vars

(***************************************************************************)
(* C26: getProductStock(P) changes no state and returns as total the sum   *)
(* of the quantities of all stock lines of P with quantity > 0, together   *)
(* with one breakdown entry per such line (warehouse name, quantity);      *)
(* lines with quantity 0 appear neither in the total nor in the breakdown. *)
(***************************************************************************)
C26_StockReportOfPositiveLines ==
    [][(handler.pc = "getProductStock" /\ handler'.pc = "returned") =>
          LET P == handler.productID
              positive == {w \in warehouses :
                              /\ StockKey(P, w) \in DOMAIN stocks
                              /\ stocks[StockKey(P, w)] > 0}
              details == handler'.stockDetails
          IN  /\ UNCHANGED <<shared, gateway>>
              /\ handler'.totalStock =
                     SumOver([w \in positive |-> stocks[StockKey(P, w)]], positive)
              /\ Len(details) = Cardinality(positive)
              /\ \A w \in positive : \E n \in 1..Len(details) :
                     details[n] = [WarehouseName |-> WarehouseName(w),
                                   Quantity |-> stocks[StockKey(P, w)]]
              /\ \A n \in 1..Len(details) : details[n].Quantity > 0
      ]_vars

\* product 3 with 2 units in Tokyo, none in Osaka and 1 in Fukuoka: a total
\* of 3 and two entries
C26_Witness ==
    /\ handler.pc = "returned"
    /\ handler.productID = 3
    /\ stocks[StockKey(3, 1)] = 2 /\ stocks[StockKey(3, 2)] = 0 /\ stocks[StockKey(3, 3)] = 1
    /\ handler.totalStock = 3
    /\ Len(handler.stockDetails) = 2
    /\ \E n \in 1..2 : handler.stockDetails[n] = [WarehouseName |-> "Fukuoka", Quantity |-> 1]

(***************************************************************************)
(* C27: allocateStock is deterministic: two calls with the same product,   *)
(* the same required quantity and the same stock state select the          *)
(* warehouses in the same order and return the same per-warehouse draw     *)
(* plan; that is, what a call returns and leaves in the stocks map is what *)
(* it returns and leaves for every order in which its range over the       *)
(* stocks map may visit the lines.  Refuted: with 2 units in each of two   *)
(* warehouses, a call for 3 units draws 2 and 1 or 1 and 2, as the map     *)
(* iteration goes.                                                         *)
(***************************************************************************)
C27_AllocateStockDeterministic ==
    [][(handler.pc = "allocateStock" /\ handler'.pc = "returned") =>
          \A order \in Orderings(AvailableWarehouses(handler.productID)) :
              LET result == AllocateStockResult(handler.productID,
                                                handler.requiredQuantity, order)
              IN  /\ handler'.allocated = result.allocated
                  /\ handler'.allocations = result.allocations
                  /\ stocks' = IF result.allocated
                               THEN Decremented(handler.productID, result.allocations)
                               ELSE stocks
      ]_vars

\* request p is between the snapshot and the return of an allocateStock call
Allocating(p) == handler[p].pc \in {"alloc_cmp", "alloc_take", "alloc_sub", "alloc_commit"}

(***************************************************************************)
(* C28: after any set of concurrent allocateStock(P, q) calls has          *)
(* completed, the total stock of P equals its initial total S minus the    *)
(* sum of the quantities of the calls that returned allocated = true;      *)
(* failed calls contribute nothing.  Refuted: a call whose planning loop   *)
(* reads a line before and after another call's decrement commits a plan   *)
(* that sums to more than its quantity.                                    *)
(***************************************************************************)
C28_RemainingIsInitialMinusDraws ==
    (\A p \in Procs : ~Allocating(p)) =>
        \A productID \in ProductIDs :
            TotalQuantity(productID) =
                InitTotal(productID)
                    - SumOver([p \in Procs |-> AllocatedQuantity(p, productID)], Procs)

(***************************************************************************)
(* The documented outcomes of a checkout attempt.                          *)
(***************************************************************************)
\* client error at validation: nothing was asked of the gateway
RejectedAtValidation(p) ==
    /\ handler[p].code \in {400, 404}
    /\ gateway[p] = <<>>
    /\ handler[p].status = ""

\* server error: usePoints returned false
ReservationFailed(p) ==
    /\ handler[p].code = 500
    /\ gateway[p] = <<>>
    /\ handler[p].req.UsePoints > 0
    /\ ~handler[p].pointsUsed
    /\ handler[p].status = ""

\* payment declined, with the message the gateway gave
PaymentDeclined(p) ==
    /\ handler[p].code = 402
    /\ Len(gateway[p]) = 1
    /\ ~gateway[p][1].answer.Success
    /\ handler[p].body = <<"error", "Payment failed: ", gateway[p][1].answer.Message>>
    /\ handler[p].status = "payment_failed"

\* conflict: charged, and a line item could not be allocated
AllocationConflict(p) ==
    /\ handler[p].code = 409
    /\ Len(gateway[p]) = 1
    /\ gateway[p][1].answer.Success
    /\ handler[p].allocated < Len(handler[p].req.Items)
    /\ handler[p].status = "payment_failed"

\* success, with the transaction id the gateway gave
Succeeded(p) ==
    /\ handler[p].code = 201
    /\ Len(gateway[p]) = 1
    /\ gateway[p][1].answer.Success
    /\ handler[p].body = <<"transaction_id", gateway[p][1].answer.TransactionID>>
    /\ handler[p].allocated = Len(handler[p].req.Items)
    /\ handler[p].status = "completed"

\* how many of the documented outcomes describe the end of request p
Outcomes(p) ==
    Cardinality({n \in 1..5 :
        \/ n = 1 /\ RejectedAtValidation(p)
        \/ n = 2 /\ ReservationFailed(p)
        \/ n = 3 /\ PaymentDeclined(p)
        \/ n = 4 /\ AllocationConflict(p)
        \/ n = 5 /\ Succeeded(p)})

NewEarnedEntries ==
    {id \in DOMAIN pointHistories' \ DOMAIN pointHistories :
        pointHistories'[id].Type = "earned"}

(***************************************************************************)
(* C30: stock is decremented and earned points are credited only for       *)
(* checkouts whose payment succeeded: a checkout that ends                 *)
(* "payment_failed" because the gateway declined leaves the user's         *)
(* lifetime spend and tier unchanged and appends no "earned" history       *)
(* entry, although its stored order carries the computed earned-points     *)
(* value, floor(total / 100).                                              *)
(***************************************************************************)
C30_OnlyPaidCheckoutsDrawAndEarn ==
    [][\A p \in Procs :
          LET h == handler[p]
              h2 == handler'[p]
              u == h.req.UserID
          IN  (h2 # h) =>
                /\ (stocks' # stocks \/ NewEarnedEntries # {}) => h.paymentResult = "success"
                /\ (h.paymentResult = "declined") =>
                      /\ stocks' = stocks
                      /\ NewEarnedEntries = {}
                      /\ users'[u].TotalSpentAmount = users[u].TotalSpentAmount
                      /\ users'[u].MemberRank = users[u].MemberRank
                      /\ (h2.pc = "done") =>
                            /\ h2.code = 402
                            /\ orders'[h.orderID].Status = "payment_failed"
                            /\ orders'[h.orderID].UserID = u
                            /\ orders'[h.orderID].EarnedPoints =
                                   orders'[h.orderID].TotalPrice \div 100
      ]_vars

\* the checkout of user 3 for 82300 was declined: its order would have earned
\* 823 points, and user 3 has the spend, the tier and the single "earned"
\* entry of before
C30_Witness ==
    \E p \in Procs :
        /\ handler[p].pc = "done"
        /\ handler[p].paymentResult = "declined"
        /\ handler[p].req.UserID = 3
        /\ orders[handler[p].orderID].UserID = 3
        /\ orders[handler[p].orderID].Status = "payment_failed"
        /\ orders[handler[p].orderID].TotalPrice = 82300
        /\ orders[handler[p].orderID].EarnedPoints = 823
        /\ users[3] = InitUsers[3]
        /\ stocks = InitStocks
        /\ Cardinality(HistoryOfType(3, "earned")) = 1

(***************************************************************************)
(* C31: at every point of a request the goroutine holds locks of at most   *)
(* one resource family: no lock of one family is acquired while a lock of  *)
(* another family is held.  Refuted: the item loop of createOrderHandler   *)
(* keeps productMux read-locked while getProductStock takes stockMux and,  *)
(* inside it, warehouseMux; usePoints takes pointHistoryMux while it holds *)
(* userMux.                                                                *)
(***************************************************************************)
C31_AtMostOneLockFamily ==
    \A p \in Procs : Cardinality({hd.mutex : hd \in handler[p].held}) <= 1

(***************************************************************************)
(* generateSalesReport on its own.  This specification draws an orders map *)
(* of up to three orders (status "completed", "payment_failed" or          *)
(* "confirmed", with or without a coupon, over carts of the four products  *)
(* of init() and of a product that is not in the catalog) and lets one     *)
(* caller run generateSalesReport with no other goroutine at work, one     *)
(* step per part of the report.                                            *)
(***************************************************************************)
\* Name of the products of init(): notebook PC, mouse, desk, chair
ReportCatalog ==
    (1 :> [Name |-> "NotePC"]) @@ (2 :> [Name |-> "Mouse"]) @@
    (3 :> [Name |-> "Desk"]) @@ (4 :> [Name |-> "Chair"])

ReportOrderIDs == 1..3

\* TotalPrice of the drawn order with each id
ReportPrices == <<25000, 11000, 16500>>

ReportCarts ==
    { <<Item(1, 2), Item(2, 1)>>, <<Item(3, 1)>>, <<Item(4, 3)>>,
      <<Item(2, 1), Item(9, 1)>> }

ReportStatuses == {"completed", "payment_failed", "confirmed"}

ReportOrder(id, items, status, coupon) ==
    [ID |-> id, UserID |-> 2, Items |-> items, TotalPrice |-> ReportPrices[id],
     ShippingFee |-> 0, Status |-> status, DiscountAmount |-> 0,
     AppliedCoupon |-> coupon, EarnedPoints |-> 0, UsedPoints |-> 0, RankDiscount |-> 0]

\* the orders maps the report is run on
ReportOrderMaps ==
    UNION { { m \in [ids -> [Items : ReportCarts, Status : ReportStatuses,
                             AppliedCoupon : {"", "SAVE10"}]] : TRUE }
            : ids \in SUBSET ReportOrderIDs }

\* a call that has not run yet
ReportCall ==
    [pc |-> "generateSalesReport", totalRevenue |-> 0, completedOrders |-> 0,
     couponUsedOrders |-> 0, totalOrdersForCouponRate |-> 0,
     productQuantities |-> <<>>, topProducts |-> <<>>, warehouseInventory |-> <<>>,
     couponUsageRate |-> Float0]

ReportInit ==
    /\ stocks = InitStocks
    /\ users = InitUsers
    /\ \E m \in ReportOrderMaps :
         orders = [id \in DOMAIN m |->
                      ReportOrder(id, m[id].Items, m[id].Status, m[id].AppliedCoupon)]
    /\ nextOrderID = 4
    /\ pointHistories = InitPointHistories
    /\ nextPointHistoryID = 3
    /\ wishlists = <<>>
    /\ gateway = [p \in Procs |-> <<>>]
    /\ handler = ReportCall

\* faulty variant of CountsForCouponRate: declined orders are left out
CountsForCouponRateCompletedOnly(order) == order.Status = "completed"

\* if order.Status == "completed" || order.Status == "payment_failed"
CountsForCouponRate(order) == order.Status = "completed" \/ order.Status = "payment_failed"

\* productQuantities after productQuantities[item.ProductID] += item.Quantity
\* for the items from n on
RECURSIVE AddItems(_, _, _)
AddItems(productQuantities, items, n) ==
    IF n > Len(items) THEN productQuantities
    ELSE LET productID == items[n].ProductID
             before == IF productID \in DOMAIN productQuantities
                       THEN productQuantities[productID] ELSE 0
         IN  AddItems((productID :> before + items[n].Quantity) @@ productQuantities,
                      items, n + 1)

\* the locals of part 1 after the loop body ran for order
CountOrder(h, order) ==
    LET counted == CountsForCouponRate(order)
        completed == order.Status = "completed"
    IN  [h EXCEPT
            !.totalOrdersForCouponRate = IF counted THEN @ + 1 ELSE @,
            !.couponUsedOrders = IF counted /\ order.AppliedCoupon # "" THEN @ + 1 ELSE @,
            !.totalRevenue = IF completed THEN @ + order.TotalPrice ELSE @,
            !.completedOrders = IF completed THEN @ + 1 ELSE @,
            !.productQuantities = IF completed THEN AddItems(@, order.Items, 1) ELSE @]

\* the locals of part 1 after the range over the orders with these ids
RECURSIVE RangeOrders(_, _)
RangeOrders(h, ids) ==
    IF ids = {} THEN h
    ELSE LET id == CHOOSE x \in ids : TRUE
         IN  RangeOrders(CountOrder(h, orders[id]), ids \ {id})

\* part 1, under orderMux.RLock: the sums over the orders map
SummariseOrders ==
    /\ handler.pc = "generateSalesReport"
    /\ handler' = [RangeOrders(handler, DOMAIN orders) EXCEPT !.pc = "ranking"]
    /\ UNCHANGED <<shared, gateway>>

\* rankings[i], rankings[j] = rankings[j], rankings[i]
Swap(s, i, j) == [s EXCEPT ![i] = s[j], ![j] = s[i]]

\* the inner loop of the descending sort, from j on
RECURSIVE SortInner(_, _, _)
SortInner(rankings, i, j) ==
    IF j > Len(rankings) THEN rankings
    ELSE SortInner(IF rankings[j].Quantity > rankings[i].Quantity
                   THEN Swap(rankings, i, j) ELSE rankings, i, j + 1)

\* the outer loop of the descending sort, from i on
RECURSIVE SortByQuantity(_, _)
SortByQuantity(rankings, i) ==
    IF i > Len(rankings) THEN rankings
    ELSE SortByQuantity(SortInner(rankings, i, i + 1), i + 1)

\* part 2: the products of productQuantities that exist, in map iteration
\* order, sorted by quantity, the first three kept
RankProducts ==
    /\ handler.pc = "ranking"
    /\ \E order \in Orderings(DOMAIN handler.productQuantities \cap DOMAIN ReportCatalog) :
         LET rankings == [n \in 1..Len(order) |->
                             [ID |-> order[n], Name |-> ReportCatalog[order[n]].Name,
                              Quantity |-> handler.productQuantities[order[n]]]]
             sorted == SortByQuantity(rankings, 1)
         IN  handler' = [handler EXCEPT
                 !.pc = "inventory",
                 !.topProducts =
                     [n \in 1..(IF Len(sorted) < 3 THEN Len(sorted) ELSE 3) |->
                         [ProductName |-> sorted[n].Name,
                          TotalQuantity |-> sorted[n].Quantity]]]
    /\ UNCHANGED <<shared, gateway>>

\* position of a warehouse name in the byte order of Go strings: Osaka
\* (U+5927...) before Tokyo (U+6771...) before Fukuoka (U+798F...)
WarehouseNameOrder(name) ==
    CASE name = "Osaka" -> 1
      [] name = "Tokyo" -> 2
      [] name = "Fukuoka" -> 3

\* the inner loop of the sort by warehouse name, from j on
RECURSIVE SortInnerByName(_, _, _)
SortInnerByName(inventory, i, j) ==
    IF j > Len(inventory) THEN inventory
    ELSE SortInnerByName(
             IF WarehouseNameOrder(inventory[j].WarehouseName)
                    < WarehouseNameOrder(inventory[i].WarehouseName)
             THEN Swap(inventory, i, j) ELSE inventory, i, j + 1)

RECURSIVE SortByName(_, _)
SortByName(inventory, i) ==
    IF i > Len(inventory) THEN inventory
    ELSE SortByName(SortInnerByName(inventory, i, i + 1), i + 1)

\* float64(a) / float64(b) for ints 0 <= a and 0 < b < 2^15: the quotient is
\* cut below 2^-75, a bit is appended that tells whether anything was cut
\* off, and the result is rounded to 53 bits
FloatQuotient(a, b) ==
    IF a = 0 THEN Float0
    ELSE LET numerator == BigShiftLeft(BigFromInt(a), 75)
             q == BigDivSmall(numerator, b)
             cut == IF BigMulSmall(q, b, 0) = numerator THEN 0 ELSE 1
         IN  FloatRound(BigAdd(BigMulSmall(q, 2, 0), <<>>, cut), -76)

\* float64(couponUsedOrders) / float64(totalOrdersForCouponRate) * 100, or 0.0
CouponUsageRate(couponUsedOrders, totalOrdersForCouponRate) ==
    IF totalOrdersForCouponRate > 0
    THEN FloatMul(FloatQuotient(couponUsedOrders, totalOrdersForCouponRate),
                  FloatFromInt(BigFromInt(100)))
    ELSE Float0

\* parts 3 and 4: stock per warehouse over the lines with Quantity > 0,
\* sorted by warehouse name, and the coupon usage rate
FinishReport ==
    LET stocked == {w \in warehouses :
                       \E key \in DOMAIN stocks : key[2] = w /\ stocks[key] > 0}
        warehouseStocks ==
            [w \in stocked |->
                LET lines == {key \in DOMAIN stocks : key[2] = w /\ stocks[key] > 0}
                IN  SumOver([key \in lines |-> stocks[key]], lines)]
    IN  /\ handler.pc = "inventory"
        /\ \E order \in Orderings(stocked) :
             handler' = [handler EXCEPT
                 !.pc = "returned",
                 !.warehouseInventory =
                     SortByName([n \in 1..Len(order) |->
                                    [WarehouseName |-> WarehouseName(order[n]),
                                     TotalStock |-> warehouseStocks[order[n]]]], 1),
                 !.couponUsageRate =
                     CouponUsageRate(handler.couponUsedOrders,
                                     handler.totalOrdersForCouponRate)]
        /\ UNCHANGED <<shared, gateway>>

ReportNext == SummariseOrders \/ RankProducts \/ FinishReport

ReportSpec == ReportInit /\ [][ReportNext]_vars

\* a <= b for numbers of as many limbs
RECURSIVE BigLessEqLimbs(_, _)
BigLessEqLimbs(a, b) ==
    IF a = <<>> THEN TRUE
    ELSE IF a[Len(a)] # b[Len(b)] THEN a[Len(a)] < b[Len(b)]
    ELSE BigLessEqLimbs(SubSeq(a, 1, Len(a) - 1), SubSeq(b, 1, Len(b) - 1))

\* a <= b
BigLessEq(a, b) ==
    LET x == BigNormal(a)
        y == BigNormal(b)
    IN  IF Len(x) # Len(y) THEN Len(x) < Len(y) ELSE BigLessEqLimbs(x, y)

\* the float64 rate, a value m * 2^e with e <= 0, lies within 2^-40 of
\* 100 * used / total
IsPercentage(rate, used, total) ==
    LET scaled == BigShiftLeft(BigMulSmall(rate.m, total, 0), 40)
        exact == BigShiftLeft(BigFromInt(100 * used), 40 - rate.e)
        slack == BigShiftLeft(BigFromInt(total), -rate.e)
    IN  /\ rate.e <= 0
        /\ BigLessEq(scaled, BigAdd(BigNormal(exact), BigNormal(slack), 0))
        /\ BigLessEq(exact, BigAdd(BigNormal(scaled), BigNormal(slack), 0))

\* the stored orders with this status
OrdersWithStatus(status) == {id \in DOMAIN orders : orders[id].Status = status}

\* units of productID over the completed orders
SoldInCompleted(productID) ==
    SumOver([id \in OrdersWithStatus("completed") |->
                QuantityIn(orders[id].Items, Len(orders[id].Items), productID)],
            OrdersWithStatus("completed"))

\* the products of the catalog with a line item in a completed order
RankedProducts ==
    {productID \in DOMAIN ReportCatalog :
        \E id \in OrdersWithStatus("completed") : \E j \in 1..Len(orders[id].Items) :
            orders[id].Items[j].ProductID = productID}

(***************************************************************************)
(* C32: for any set of stored orders, the sales report's total revenue and *)
(* order count are the sum of TotalPrice and the number of the orders with *)
(* status "completed" only; the product ranking lists at most three        *)
(* products, the best sold ones, in non-increasing quantity, each with the *)
(* quantity sold in completed orders only; the coupon usage rate is the    *)
(* percentage of orders with a coupon among the completed and              *)
(* payment_failed orders together, and 0 when there are none.              *)
(***************************************************************************)
C32_SalesReportOverCompletedOrders ==
    (handler.pc = "returned") =>
        LET completed == OrdersWithStatus("completed")
            settled == completed \cup OrdersWithStatus("payment_failed")
            withCoupon == {id \in settled : orders[id].AppliedCoupon # ""}
            top == handler.topProducts
            listed == {productID \in RankedProducts :
                          \E n \in 1..Len(top) :
                              top[n].ProductName = ReportCatalog[productID].Name}
        IN  /\ handler.totalRevenue =
                   SumOver([id \in completed |-> orders[id].TotalPrice], completed)
            /\ handler.completedOrders = Cardinality(completed)
            /\ Len(top) <= 3
            /\ Len(top) = Cardinality(listed)
            /\ Cardinality(listed) = Min(3, Cardinality(RankedProducts))
            /\ \A n \in 1..Len(top) : \E productID \in listed :
                  /\ top[n].ProductName = ReportCatalog[productID].Name
                  /\ top[n].TotalQuantity = SoldInCompleted(productID)
            /\ \A n \in 1..(Len(top) - 1) : top[n].TotalQuantity >= top[n + 1].TotalQuantity
            /\ \A productID \in RankedProducts \ listed : \A n \in 1..Len(top) :
                  SoldInCompleted(productID) <= top[n].TotalQuantity
            /\ IF settled = {}
               THEN handler.couponUsageRate.m = <<>>
               ELSE IsPercentage(handler.couponUsageRate,
                                 Cardinality(withCoupon), Cardinality(settled))

\* two completed orders and a declined one that carries the only coupon:
\* the revenue and the ranking are those of the two, the rate is a third
C32_Witness ==
    /\ handler.pc = "returned"
    /\ DOMAIN orders = {1, 2, 3}
    /\ orders[1].Status = "completed" /\ orders[1].Items = <<Item(1, 2), Item(2, 1)>>
    /\ orders[2].Status = "payment_failed" /\ orders[2].Items = <<Item(4, 3)>>
    /\ orders[3].Status = "completed" /\ orders[3].Items = <<Item(2, 1), Item(9, 1)>>
    /\ orders[1].AppliedCoupon = "" /\ orders[2].AppliedCoupon = "SAVE10"
    /\ orders[3].AppliedCoupon = ""
    /\ handler.totalRevenue = 25000 + 16500
    /\ handler.completedOrders = 2
    /\ handler.topProducts = << [ProductName |-> "NotePC", TotalQuantity |-> 2],
                                [ProductName |-> "Mouse", TotalQuantity |-> 2] >>
    /\ handler.couponUsageRate.m # <<>>
    /\ ~IsPercentage(handler.couponUsageRate, 0, 2)

(***************************************************************************)
(* The wishlist handlers.  In this specification two callers send          *)
(* POST /wishlist/{id} and DELETE /wishlist/{id} requests one after the    *)
(* other, concurrently with each other, for the two registered users and   *)
(* for product 3 and a product that does not exist.  A step is one         *)
(* critical section of addToWishlistHandler or removeFromWishlistHandler.  *)
(***************************************************************************)
WishlistCallers == {1, 2}

\* key of the wishlists map: Sprintf("%d-%d", userID, productID)
WishlistKey(userID, productID) == <<userID, productID>>

WishlistRequest(op, userID, productID) ==
    [op |-> op, UserID |-> userID, ProductID |-> productID]

\* user 0 stands for a request without a valid session
WishlistRequests ==
    { WishlistRequest(op, userID, productID) :
        op \in {"add", "remove"}, userID \in UserIDs, productID \in {3, 9} }
    \cup { WishlistRequest("add", 0, 3) }

NoWishlistRequest == WishlistRequest("", 0, 0)

\* a caller between two requests; last is a history value, the request the
\* caller sent before and the status it got
WishlistIdle ==
    [pc |-> "idle", req |-> NoWishlistRequest, code |-> 0,
     last |-> [req |-> NoWishlistRequest, code |-> 0]]

WishlistInit ==
    /\ stocks = InitStocks
    /\ users = InitUsers
    /\ orders = InitOrders
    /\ nextOrderID = 3
    /\ pointHistories = InitPointHistories
    /\ nextPointHistoryID = 3
    /\ wishlists = <<>>
    /\ gateway = [p \in Procs |-> <<>>]
    /\ handler = [c \in WishlistCallers |-> WishlistIdle]

\* method, session and path checks of both handlers
WishlistReceive(c) ==
    /\ handler[c].pc = "idle"
    /\ \E r \in WishlistRequests :
         handler' = [handler EXCEPT ![c] =
             IF r.UserID \notin DOMAIN users
             THEN [@ EXCEPT !.pc = "done", !.req = r, !.code = 401]
             ELSE [@ EXCEPT !.pc = IF r.op = "add" THEN "lookup" ELSE "remove",
                            !.req = r, !.code = 0]]
    /\ UNCHANGED <<shared, gateway>>

\* addToWishlistHandler: product := products[productID] under productMux.RLock
LookupProduct(c) ==
    /\ handler[c].pc = "lookup"
    /\ handler' = [handler EXCEPT ![c] =
         IF handler[c].req.ProductID \in DOMAIN products
         THEN [@ EXCEPT !.pc = "add"]
         ELSE [@ EXCEPT !.pc = "done", !.code = 404]]
    /\ UNCHANGED <<shared, gateway>>

\* isProductInWishlist, and the exists test of addToWishlist and
\* removeFromWishlist
InWishlist(userID, productID) == WishlistKey(userID, productID) \in DOMAIN wishlists

\* addToWishlist under wishlistMux.Lock: nothing is written when the key exists
addToWishlist(userID, productID) ==
    wishlists' =
        IF InWishlist(userID, productID) THEN wishlists
        ELSE (WishlistKey(userID, productID) :>
                 [UserID |-> userID, ProductID |-> productID]) @@ wishlists

\* faulty variant of removeFromWishlist: the product leaves the wishlist of
\* every user
removeFromWishlistOfAllUsers(userID, productID) ==
    wishlists' =
        IF InWishlist(userID, productID)
        THEN [k \in {key \in DOMAIN wishlists : key[2] # productID} |-> wishlists[k]]
        ELSE wishlists

\* removeFromWishlist under wishlistMux.Lock: delete(wishlists, key) when the
\* key exists
removeFromWishlist(userID, productID) ==
    wishlists' =
        IF InWishlist(userID, productID)
        THEN [k \in DOMAIN wishlists \ {WishlistKey(userID, productID)} |-> wishlists[k]]
        ELSE wishlists

\* addToWishlistHandler: 201 when addToWishlist returned true, 409 otherwise
AddToWishlist(c) ==
    LET r == handler[c].req IN
    /\ handler[c].pc = "add"
    /\ addToWishlist(r.UserID, r.ProductID)
    /\ handler' = [handler EXCEPT ![c] =
         [@ EXCEPT !.pc = "done",
                   !.code = IF InWishlist(r.UserID, r.ProductID) THEN 409 ELSE 201]]
    /\ UNCHANGED <<stocks, users, orders, nextOrderID, pointHistories, nextPointHistoryID,
                   gateway>>

\* removeFromWishlistHandler: 200 when removeFromWishlist returned true, 404
\* otherwise
RemoveFromWishlist(c) ==
    LET r == handler[c].req IN
    /\ handler[c].pc = "remove"
    /\ removeFromWishlist(r.UserID, r.ProductID)
    /\ handler' = [handler EXCEPT ![c] =
         [@ EXCEPT !.pc = "done",
                   !.code = IF InWishlist(r.UserID, r.ProductID) THEN 200 ELSE 404]]
    /\ UNCHANGED <<stocks, users, orders, nextOrderID, pointHistories, nextPointHistoryID,
                   gateway>>

\* the response is written; the caller may send its next request
WishlistReturn(c) ==
    /\ handler[c].pc = "done"
    /\ handler' = [handler EXCEPT ![c] =
         [WishlistIdle EXCEPT !.last = [req |-> handler[c].req, code |-> handler[c].code]]]
    /\ UNCHANGED <<shared, gateway>>

WishlistNext ==
    \E c \in WishlistCallers :
        \/ WishlistReceive(c)
        \/ LookupProduct(c)
        \/ AddToWishlist(c)
        \/ RemoveFromWishlist(c)
        \/ WishlistReturn(c)

WishlistSpec == WishlistInit /\ [][WishlistNext]_vars

\* the entries of the wishlists map that belong to userID
EntriesOf(w, userID) == {key \in DOMAIN w : key[1] = userID}

(***************************************************************************)
(* C33: for every user and product and after any sequence of wishlist      *)
(* operations, adding a product that is in the user's wishlist is refused  *)
(* (409) and changes nothing; removing a product that is not in it is      *)
(* refused (404) and changes nothing; a successful add puts the product in *)
(* the wishlist and a successful remove takes it out, so that after a      *)
(* successful add followed by a successful remove the product is not in    *)
(* the wishlist; and no operation of one user changes an entry of another  *)
(* user.                                                                   *)
(***************************************************************************)
C33_WishlistAddRemove ==
    [][\A c \in WishlistCallers :
        LET h == handler[c]
            h2 == handler'[c]
            u == h.req.UserID
            key == WishlistKey(h.req.UserID, h.req.ProductID)
        IN  (h2 # h) =>
              /\ (h.pc \notin {"add", "remove"}) => wishlists' = wishlists
              /\ (h.pc = "add" /\ key \in DOMAIN wishlists) =>
                    h2.code = 409 /\ wishlists' = wishlists
              /\ (h.pc = "add" /\ key \notin DOMAIN wishlists) =>
                    h2.code = 201 /\ key \in DOMAIN wishlists'
              /\ (h.pc = "remove" /\ key \notin DOMAIN wishlists) =>
                    h2.code = 404 /\ wishlists' = wishlists
              /\ (h.pc = "remove" /\ key \in DOMAIN wishlists) =>
                    h2.code = 200 /\ key \notin DOMAIN wishlists'
              /\ \A other \in UserIDs \ {u} :
                    /\ EntriesOf(wishlists', other) = EntriesOf(wishlists, other)
                    /\ \A k \in EntriesOf(wishlists, other) : wishlists'[k] = wishlists[k]
              /\ \A k \in DOMAIN wishlists' : wishlists'[k].UserID = k[1]]_vars

\* user 3 added product 3 and then removed it, both with success, while
\* product 3 stays in the wishlist of user 2
C33_Witness ==
    \E c \in WishlistCallers :
        /\ handler[c].last = [req |-> WishlistRequest("add", 3, 3), code |-> 201]
        /\ handler[c].pc = "done"
        /\ handler[c].req = WishlistRequest("remove", 3, 3)
        /\ handler[c].code = 200
        /\ DOMAIN wishlists = {WishlistKey(2, 3)}

(***************************************************************************)
(* C34: with no concurrent stock change, allocateStock(P, q) with q > 0    *)
(* returns allocated = true exactly when the total stock of P (the sum of  *)
(* its lines with Quantity > 0, as getProductStock counts it) is >= q, and *)
(* then the draws of the returned plan sum to q, every draw is > 0 and at  *)
(* most the quantity the warehouse held before the call, and each          *)
(* warehouse's line of P is reduced by exactly its draw while every other  *)
(* line is unchanged.                                                      *)
(***************************************************************************)
C34_AllocateStockDrawsExactly ==
    [][(handler.pc = "allocateStock" /\ handler'.pc = "returned") =>
          LET P == handler.productID
              q == handler.requiredQuantity
              draws == handler'.allocations
          IN  /\ handler'.allocated <=> getProductStock(P) >= q
              /\ handler'.allocated =>
                    /\ SumOver(draws, DOMAIN draws) = q
                    /\ \A w \in DOMAIN draws :
                          /\ StockKey(P, w) \in DOMAIN stocks
                          /\ draws[w] > 0
                          /\ draws[w] <= stocks[StockKey(P, w)]
                    /\ DOMAIN stocks' = DOMAIN stocks
                    /\ \A key \in DOMAIN stocks :
                          stocks'[key] =
                              IF key[1] = P /\ key[2] \in DOMAIN draws
                              THEN stocks[key] - draws[key[2]]
                              ELSE stocks[key]
      ]_vars

\* 3 units of product 3 were asked for and drawn from two warehouses, 2 from
\* a line that held 2 and 1 from a line that held 2; the overdrawn line of
\* the third warehouse and the line of product 5 were left alone
C34_Witness ==
    /\ handler.pc = "returned"
    /\ handler.productID = 3
    /\ handler.requiredQuantity = 3
    /\ handler.allocated
    /\ handler.allocations = (1 :> 2) @@ (2 :> 1)
    /\ stocks[StockKey(3, 1)] = 0
    /\ stocks[StockKey(3, 2)] = 1
    /\ stocks[StockKey(3, 3)] = -1
    /\ stocks[StockKey(5, 1)] = 1

\* request p is the only request that has arrived so far
RunsAlone(p) == \A q \in Procs \ {p} : handler[q].pc = "idle"

(***************************************************************************)
(* C35: a checkout that passes validation, is charged successfully and     *)
(* runs with no other request in flight ends "completed": allocation       *)
(* cannot fail for a cart that validation accepted, also when the cart     *)
(* names a product in more than one line item.  Refuted: validation        *)
(* compares each line item with the total stock on its own, so a cart of   *)
(* 1 and 4 desks is accepted against a stock of 4 and the allocation of    *)
(* its second line fails.                                                  *)
(***************************************************************************)
C35_AcceptedCartCompletesAlone ==
    \A p \in Procs :
        ( /\ handler[p].pc = "done"
          /\ handler[p].paymentResult = "success"
          /\ RunsAlone(p) )
        => handler[p].status = "completed"

(***************************************************************************)
(* C36: a checkout that ends "payment_failed" because the allocation of    *)
(* one of its line items failed leaves every stock line as it was before   *)
(* the attempt; stated for an attempt that runs with no other request in   *)
(* flight, where the lines before the attempt are those of the initial     *)
(* store.  Refuted: the line items allocated before the one that failed    *)
(* stay decremented.                                                       *)
(***************************************************************************)
C36_FailedAllocationRestoresStock ==
    \A p \in Procs :
        ( /\ handler[p].pc = "done"
          /\ handler[p].code = 409
          /\ RunsAlone(p) )
        => stocks = InitStocks

(***************************************************************************)
(* C37: on a completed checkout the points debited from the user's balance *)
(* never exceed the amount by which the charge was reduced: when           *)
(* pointsToUse is larger than the amount due before redemption (the amount *)
(* after the coupon plus the shipping fee), only the amount due is debited *)
(* and recorded as the order's used points.  Refuted: usePoints is called  *)
(* with the requested points and the order records the requested points,   *)
(* whatever the amount due.                                                *)
(***************************************************************************)
C37_DebitWithinAmountDue ==
    \A p \in Procs :
        Completed(p) =>
            LET h == handler[p]
                due == Priced(h).afterCouponAmount + Priced(h).shippingFee
            IN  /\ \A id \in HistoryOfType(h.req.UserID, "used") :
                      (pointHistories[id].OrderID = h.orderID) =>
                          pointHistories[id].Amount <= due
                /\ orders[h.orderID].UsedPoints <= due

(***************************************************************************)
(* Lock statements of the requests that share the catalog, stock, user,    *)
(* order and wishlist locks.  In this specification one request of each    *)
(* kind (checkout, product listing, product creation, wishlist add,        *)
(* wishlist remove, recommendations) runs concurrently with the others,    *)
(* one Lock, RLock, Unlock or RUnlock statement per step, from the return  *)
(* of getAuthUser to the response.  Data is abstracted away: every branch  *)
(* of the code is a free choice.  The locks are Go's sync.RWMutex: a       *)
(* goroutine that has called Lock waits for the holders to leave, and      *)
(* while it waits no RLock call on that mutex returns.                     *)
(***************************************************************************)
\* createOrderHandler after the gateway call: allocateStock per line item,
\* rollbackPoints, addPoints, updateUserPurchaseAmountAndRank, the read of
\* the updated user, and the store of the order
SettlementLocks ==
    ("paid"   :> Step("branch", "", {"al1", "fail"})) @@
    ("al1"    :> Step("RLock", "stockMux", {"al2"})) @@
    ("al2"    :> Step("RUnlock", "stockMux", {"al3", "fail"})) @@
    ("al3"    :> Step("Lock", "stockMux", {"al4"})) @@
    ("al4"    :> Step("Unlock", "stockMux", {"al1", "earn"})) @@
    ("fail"   :> Step("branch", "", {"rb1", "o1"})) @@
    ("rb1"    :> Step("Lock", "userMux", {"rb2"})) @@
    ("rb2"    :> Step("Lock", "pointHistoryMux", {"rb3"})) @@
    ("rb3"    :> Step("Unlock", "pointHistoryMux", {"rb4"})) @@
    ("rb4"    :> Step("Unlock", "userMux", {"o1"})) @@
    ("earn"   :> Step("branch", "", {"ap1", "ur1"})) @@
    ("ap1"    :> Step("Lock", "userMux", {"ap2"})) @@
    ("ap2"    :> Step("Lock", "pointHistoryMux", {"ap3"})) @@
    ("ap3"    :> Step("Unlock", "pointHistoryMux", {"ap4"})) @@
    ("ap4"    :> Step("Unlock", "userMux", {"ur1"})) @@
    ("ur1"    :> Step("Lock", "userMux", {"ur2"})) @@
    ("ur2"    :> Step("Unlock", "userMux", {"ru1"})) @@
    ("ru1"    :> Step("RLock", "userMux", {"ru2"})) @@
    ("ru2"    :> Step("RUnlock", "userMux", {"o1"})) @@
    ("o1"     :> Step("Lock", "orderMux", {"o2"})) @@
    ("o2"     :> Step("Unlock", "orderMux", {"return"}))

\* getProductsHandler: productMux.RLock with deferred RUnlock around the
\* loop that calls getProductStock and, for a logged-in user,
\* isProductInWishlist
ListingLocks ==
    ("l1"     :> Step("RLock", "productMux", {"l_loop"})) @@
    ("l_loop" :> Step("branch", "", {"l_s1", "l_end"})) @@
    ("l_s1"   :> Step("RLock", "stockMux", {"l_line"})) @@
    ("l_line" :> Step("branch", "", {"l_w1", "l_s2"})) @@
    ("l_w1"   :> Step("RLock", "warehouseMux", {"l_w2"})) @@
    ("l_w2"   :> Step("RUnlock", "warehouseMux", {"l_line"})) @@
    ("l_s2"   :> Step("RUnlock", "stockMux", {"l_f1", "l_loop"})) @@
    ("l_f1"   :> Step("RLock", "wishlistMux", {"l_f2"})) @@
    ("l_f2"   :> Step("RUnlock", "wishlistMux", {"l_loop"})) @@
    ("l_end"  :> Step("RUnlock", "productMux", {"return"}))

\* createProductHandler: the product is stored, the initial stock line is
\* written, getProductStock is called for the response
CreationLocks ==
    ("n1"     :> Step("Lock", "productMux", {"n2"})) @@
    ("n2"     :> Step("Unlock", "productMux", {"n_s1", "n_g1"})) @@
    ("n_s1"   :> Step("Lock", "stockMux", {"n_s2"})) @@
    ("n_s2"   :> Step("Unlock", "stockMux", {"n_g1"})) @@
    ("n_g1"   :> Step("RLock", "stockMux", {"n_line"})) @@
    ("n_line" :> Step("branch", "", {"n_w1", "n_g2"})) @@
    ("n_w1"   :> Step("RLock", "warehouseMux", {"n_w2"})) @@
    ("n_w2"   :> Step("RUnlock", "warehouseMux", {"n_line"})) @@
    ("n_g2"   :> Step("RUnlock", "stockMux", {"return"}))

\* addToWishlistHandler: product lookup, then addToWishlist
WishlistAddLocks ==
    ("a1"     :> Step("RLock", "productMux", {"a2"})) @@
    ("a2"     :> Step("RUnlock", "productMux", {"return", "a_w1"})) @@
    ("a_w1"   :> Step("Lock", "wishlistMux", {"a_w2"})) @@
    ("a_w2"   :> Step("Unlock", "wishlistMux", {"return"}))

\* removeFromWishlistHandler: removeFromWishlist
WishlistRemoveLocks ==
    ("d1"     :> Step("Lock", "wishlistMux", {"d2"})) @@
    ("d2"     :> Step("Unlock", "wishlistMux", {"return"}))

\* getRecommendations: getUserWishlistCategories takes productMux inside its
\* range over the wishlists under wishlistMux.RLock; then the favourites are
\* read and the catalog is searched
RecommendationLocks ==
    ("g1"     :> Step("RLock", "wishlistMux", {"g_loop"})) @@
    ("g_loop" :> Step("branch", "", {"g_p1", "g_end"})) @@
    ("g_p1"   :> Step("RLock", "productMux", {"g_p2"})) @@
    ("g_p2"   :> Step("RUnlock", "productMux", {"g_loop"})) @@
    ("g_end"  :> Step("RUnlock", "wishlistMux", {"return", "g_f1"})) @@
    ("g_f1"   :> Step("RLock", "wishlistMux", {"g_f2"})) @@
    ("g_f2"   :> Step("RUnlock", "wishlistMux", {"g_r1"})) @@
    ("g_r1"   :> Step("RLock", "productMux", {"g_r2"})) @@
    ("g_r2"   :> Step("RUnlock", "productMux", {"return"}))

RequestProgram ==
    LockProgram @@ SettlementLocks @@ ListingLocks @@ CreationLocks @@
    WishlistAddLocks @@ WishlistRemoveLocks @@ RecommendationLocks

\* the first statement of each kind of request
RequestStart ==
    [checkout |-> "start", listing |-> "l1", creation |-> "n1",
     wishlistAdd |-> "a1", wishlistRemove |-> "d1", recommendations |-> "g1"]

RequestKinds == DOMAIN RequestStart

\* waiting: the goroutine has called Lock and the call has not returned
RequestLockInit ==
    /\ stocks = InitStocks
    /\ users = InitUsers
    /\ orders = InitOrders
    /\ nextOrderID = 3
    /\ pointHistories = InitPointHistories
    /\ nextPointHistoryID = 3
    /\ wishlists = <<>>
    /\ gateway = [p \in Procs |-> <<>>]
    /\ handler = [k \in RequestKinds |->
                     [pc |-> RequestStart[k], held |-> {}, waiting |-> FALSE]]

\* the statement request k is about to execute, or is executing
Statement(k) == RequestProgram[handler[k].pc]

Running(k) == handler[k].pc \in DOMAIN RequestProgram

\* some other goroutine holds mutex in one of these modes
HeldByOther(k, mutex, modes) ==
    \E other \in RequestKinds \ {k} : \E mode \in modes :
        Holding(mutex, mode) \in handler[other].held

\* some other goroutine waits inside mutex.Lock()
WriterWaiting(k, mutex) ==
    \E other \in RequestKinds \ {k} :
        /\ Running(other)
        /\ handler[other].waiting
        /\ Statement(other).mutex = mutex

\* mutex.Lock() is called: the writer is announced
CallLock(k) ==
    /\ Running(k)
    /\ Statement(k).op = "Lock"
    /\ ~handler[k].waiting
    /\ handler' = [handler EXCEPT ![k].waiting = TRUE]
    /\ UNCHANGED <<shared, gateway>>

\* mutex.Lock() returns once no reader and no writer holds the mutex
ReturnFromLock(k) ==
    /\ Running(k)
    /\ Statement(k).op = "Lock"
    /\ handler[k].waiting
    /\ ~HeldByOther(k, Statement(k).mutex, {"R", "W"})
    /\ \E next \in Statement(k).next :
         handler' = [handler EXCEPT ![k] =
             [pc |-> next, waiting |-> FALSE,
              held |-> handler[k].held \cup {Holding(Statement(k).mutex, "W")}]]
    /\ UNCHANGED <<shared, gateway>>

\* mutex.RLock() returns when no writer holds the mutex and none waits for it
CanReturnFromRLock(k, mutex) ==
    /\ ~HeldByOther(k, mutex, {"W"})
    /\ ~WriterWaiting(k, mutex)

ReturnFromRLock(k) ==
    /\ Running(k)
    /\ Statement(k).op = "RLock"
    /\ CanReturnFromRLock(k, Statement(k).mutex)
    /\ \E next \in Statement(k).next :
         handler' = [handler EXCEPT ![k] =
             [pc |-> next, waiting |-> FALSE,
              held |-> handler[k].held \cup {Holding(Statement(k).mutex, "R")}]]
    /\ UNCHANGED <<shared, gateway>>

\* mutex.Unlock() or mutex.RUnlock()
ReleaseLock(k) ==
    /\ Running(k)
    /\ Statement(k).op \in {"Unlock", "RUnlock"}
    /\ \E next \in Statement(k).next :
         handler' = [handler EXCEPT ![k] =
             [pc |-> next, waiting |-> FALSE,
              held |-> handler[k].held \
                  {Holding(Statement(k).mutex,
                           IF Statement(k).op = "Unlock" THEN "W" ELSE "R")}]]
    /\ UNCHANGED <<shared, gateway>>

\* an if, a loop head, the call of the gateway or its return
TakeBranch(k) ==
    /\ Running(k)
    /\ Statement(k).op \in {"branch", "call", "return"}
    /\ \E next \in Statement(k).next :
         handler' = [handler EXCEPT ![k].pc = next]
    /\ UNCHANGED <<shared, gateway>>

RequestLockNext ==
    \E k \in RequestKinds :
        \/ CallLock(k)
        \/ ReturnFromLock(k)
        \/ ReturnFromRLock(k)
        \/ ReleaseLock(k)
        \/ TakeBranch(k)

RequestLockSpec == RequestLockInit /\ [][RequestLockNext]_vars

\* request k is inside a Lock or RLock call that cannot return now
LockCallBlocked(k) ==
    /\ Running(k)
    /\ \/ /\ Statement(k).op = "Lock"
          /\ handler[k].waiting
          /\ HeldByOther(k, Statement(k).mutex, {"R", "W"})
       \/ /\ Statement(k).op = "RLock"
          /\ ~CanReturnFromRLock(k, Statement(k).mutex)

\* the requests whose progress the Lock or RLock call of request k waits for:
\* the holders of the mutex in a conflicting mode and, for a reader, the
\* writers waiting for the mutex
WaitsFor(k) ==
    {other \in RequestKinds \ {k} :
        \/ Holding(Statement(k).mutex, "W") \in handler[other].held
        \/ /\ Statement(k).op = "Lock"
           /\ Holding(Statement(k).mutex, "R") \in handler[other].held
        \/ /\ Statement(k).op = "RLock"
           /\ Running(other)
           /\ handler[other].waiting
           /\ Statement(other).mutex = Statement(k).mutex}

\* a set of requests each of which is blocked in a lock call and waits only
\* for requests of the set: none of them ever proceeds
WaitingForever(D) ==
    /\ D # {}
    /\ \A k \in D : LockCallBlocked(k) /\ WaitsFor(k) \subseteq D

\* C38: whatever the interleaving of a checkout, a product listing, a
\* product creation, a wishlist add, a wishlist remove and a recommendations
\* request, no state is reached in which some requests wait on each other's
\* reader/writer locks forever.
C38_NoRequestWaitsForever ==
    \A D \in SUBSET RequestKinds : ~WaitingForever(D)

\* the ledger operation the step of request p performs, "" when none
LedgerOperation(p) ==
    IF handler'[p] = handler[p] THEN ""
    ELSE IF handler[p].pc = "usePoints" THEN "used"
    ELSE IF handler[p].pc = "addPoints" THEN "earned"
    ELSE IF handler[p].pc = "rollback" THEN "rollback"
    ELSE ""

\* the step of request p is a usePoints call that returns false
FailedReservation(p) ==
    LedgerOperation(p) = "used" /\ ~handler'[p].pointsUsed

\* the identifiers the step adds to the point history
AppendedEntries == DOMAIN pointHistories' \ DOMAIN pointHistories

(***************************************************************************)
(* C39: the point history is append-only under any interleaving.  Every    *)
(* successful usePoints, addPoints and rollbackPoints appends exactly one  *)
(* entry, under an identifier no entry had before, with Balance equal to   *)
(* the user's balance right after the operation; a failed usePoints        *)
(* appends none; no step changes, overwrites or removes an existing entry, *)
(* and nothing else appends.                                               *)
(***************************************************************************)
C39_PointHistoryAppendOnly ==
    [][/\ \A id \in DOMAIN pointHistories :
            id \in DOMAIN pointHistories' /\ pointHistories'[id] = pointHistories[id]
       /\ \A p \in Procs :
            LET h == handler[p] IN
                (LedgerOperation(p) # "" /\ ~FailedReservation(p)) =>
                    \E id \in AppendedEntries :
                        /\ AppendedEntries = {id}
                        /\ pointHistories'[id].ID = id
                        /\ pointHistories'[id].UserID = h.req.UserID
                        /\ pointHistories'[id].Type = LedgerOperation(p)
                        /\ pointHistories'[id].Balance
                               = users'[h.req.UserID].CurrentPoints
       /\ (\A p \in Procs : LedgerOperation(p) = "" \/ FailedReservation(p))
            => AppendedEntries = {}
      ]_vars

\* one checkout of a user reserved points and gave them back or earned
\* points on top (entries 3 and 4), the other checkout of the same user
\* found the balance short in usePoints and returned 500 leaving no entry
C39_Witness ==
    /\ nextPointHistoryID = 5
    /\ DOMAIN pointHistories = 1..4
    /\ pointHistories[3].Type = "used"
    /\ pointHistories[4].Type \in {"rollback", "earned"}
    /\ pointHistories[4].OrderID = pointHistories[3].OrderID
    /\ pointHistories[4].Balance = users[pointHistories[4].UserID].CurrentPoints
    /\ \E q \in Procs :
          /\ handler[q].pc = "done" /\ handler[q].code = 500
          /\ handler[q].req.UsePoints > 0
          /\ ~handler[q].pointsUsed
          /\ handler[q].req.UserID = pointHistories[3].UserID

====
